---- MODULE Spec2Model ----
(***************************************************************************)
(* Tiny Modbus client engine (tmb_client_send_request and the codecs it    *)
(* drives), modelled from the implementation section of the header.        *)
(*                                                                         *)
(* One exchange is broken at its suspension points: the entry step         *)
(* validates and builds the request ADU, every transport.write and every   *)
(* transport.read call is one step.  Bytes are naturals 0..255, uint16     *)
(* values are naturals 0..65535.  A size_t value that wrapped below zero   *)
(* is kept as the negative integer it is congruent to (-2 stands for       *)
(* SIZE_MAX - 1); ULe/UGe compare such values as unsigned.                 *)
(***************************************************************************)
EXTENDS Integers, Sequences, FiniteSets, TLC

(* ------------------------------------------------------------------ *)
(* Error codes (enum tmb_error) and protocol constants                 *)
(* ------------------------------------------------------------------ *)
TMB_SUCCESS == 0
TMB_E_ILLEGAL_FUNCTION == 1
TMB_E_ILLEGAL_DATA_VALUE == 3
TMB_FAILURE == 256
TMB_E_INVALID_ARGUMENTS == 259
TMB_E_INVALID_MODE == 260
TMB_E_NOT_IMPLEMENTED == 261
TMB_E_NO_MEMORY == 262
TMB_E_TRANSPORT == 263
TMB_E_INVALID_CRC == 269

TMB_PDU_MAX_SIZE == 253
TMB_ADU_RTU_MAX_SIZE == 1 + TMB_PDU_MAX_SIZE + 2
TMB_ADU_TCPIP_MAX_SIZE == 7 + TMB_PDU_MAX_SIZE
TMB_ADU_CRC_LENGTH == 2
TMB_MODBUS_PROTOCOL_IDENTIFIER == 0
TMB_ADU_TCPIP_SIZE_OFFSET == 4
TMB_RESPONSE_LOOKAHEAD_BYTES == 2

TMB_READ_COIL_MIN_QUANTITY == 1
TMB_READ_COIL_MAX_QUANTITY == 2000
TMB_READ_DISCRETE_INPUT_MIN_QUANTITY == 1
TMB_READ_DISCRETE_INPUT_MAX_QUANTITY == 2000
TMB_READ_HOLDING_REGISTER_MIN_QUANTITY == 1
TMB_READ_HOLDING_REGISTER_MAX_QUANTITY == 125
TMB_READ_INPUT_REGISTER_MIN_QUANTITY == 1
TMB_WRITE_SINGLE_COIL_TRUE_VALUE == 65280
TMB_WRITE_SINGLE_COIL_FALSE_VALUE == 0
TMB_WRITE_MULTIPLE_COILS_MIN_QUANTITY == 1
TMB_WRITE_MULTIPLE_COILS_MAX_QUANTITY == 1968
TMB_WRITE_MULTIPLE_REGISTERS_MIN_QUANTITY == 1

TMB_FUNCTION_READ_COILS == 1
TMB_FUNCTION_READ_DISCRETE_INPUTS == 2
TMB_FUNCTION_READ_HOLDING_REGISTERS == 3
TMB_FUNCTION_READ_INPUT_REGISTERS == 4
TMB_FUNCTION_WRITE_SINGLE_COIL == 5
TMB_FUNCTION_WRITE_SINGLE_REGISTER == 6
TMB_FUNCTION_WRITE_MULTIPLE_COILS == 15
TMB_FUNCTION_WRITE_MULTIPLE_REGISTERS == 16

TMB_SERVER_MAX_ADDRESSES == 10
TMB_ADDRESS_ANY == 256
TMB_MODE_CLIENT == "client"
TMB_MODE_SERVER == "server"
TMB_TRANSPORT_PROTOCOL_RTU == "rtu"
TMB_TRANSPORT_PROTOCOL_ASCII == "ascii"
TMB_TRANSPORT_PROTOCOL_TCPIP == "tcpip"

(* ------------------------------------------------------------------ *)
(* Integer helpers                                                     *)
(* ------------------------------------------------------------------ *)
RECURSIVE XorBits(_, _, _)
XorBits(a, b, n) ==
    IF n = 0 THEN 0
    ELSE (((a % 2) + (b % 2)) % 2) + 2 * XorBits(a \div 2, b \div 2, n - 1)

\* the xor of two 4-bit values, tabulated once
Xor4 == [a \in 0..15 |-> [b \in 0..15 |-> XorBits(a, b, 4)]]

Xor8(a, b) == 16 * Xor4[a \div 16][b \div 16] + Xor4[a % 16][b % 16]

Xor16(a, b) == 256 * Xor8(a \div 256, b \div 256) + Xor8(a % 256, b % 256)

Min(a, b) == IF a < b THEN a ELSE b

\* unsigned comparison of size_t values (negative = wrapped below zero)
ULe(a, b) == IF (a >= 0) = (b >= 0) THEN a <= b ELSE a >= 0
UGe(a, b) == ULe(b, a)

HiByte(v) == (v \div 256) % 256
LoByte(v) == v % 256

(* ------------------------------------------------------------------ *)
(* Checksums                                                           *)
(* ------------------------------------------------------------------ *)
crc16_table ==
    << 0, 49345, 49537, 320, 49921, 960, 640, 49729, 50689, 1728, 1920, 51009,
       1280, 50625, 50305, 1088, 52225, 3264, 3456, 52545, 3840, 53185, 52865, 3648,
       2560, 51905, 52097, 2880, 51457, 2496, 2176, 51265, 55297, 6336, 6528, 55617,
       6912, 56257, 55937, 6720, 7680, 57025, 57217, 8000, 56577, 7616, 7296, 56385,
       5120, 54465, 54657, 5440, 55041, 6080, 5760, 54849, 53761, 4800, 4992, 54081,
       4352, 53697, 53377, 4160, 61441, 12480, 12672, 61761, 13056, 62401, 62081, 12864,
       13824, 63169, 63361, 14144, 62721, 13760, 13440, 62529, 15360, 64705, 64897, 15680,
       65281, 16320, 16000, 65089, 64001, 15040, 15232, 64321, 14592, 63937, 63617, 14400,
       10240, 59585, 59777, 10560, 60161, 11200, 10880, 59969, 60929, 11968, 12160, 61249,
       11520, 60865, 60545, 11328, 58369, 9408, 9600, 58689, 9984, 59329, 59009, 9792,
       8704, 58049, 58241, 9024, 57601, 8640, 8320, 57409, 40961, 24768, 24960, 41281,
       25344, 41921, 41601, 25152, 26112, 42689, 42881, 26432, 42241, 26048, 25728, 42049,
       27648, 44225, 44417, 27968, 44801, 28608, 28288, 44609, 43521, 27328, 27520, 43841,
       26880, 43457, 43137, 26688, 30720, 47297, 47489, 31040, 47873, 31680, 31360, 47681,
       48641, 32448, 32640, 48961, 32000, 48577, 48257, 31808, 46081, 29888, 30080, 46401,
       30464, 47041, 46721, 30272, 29184, 45761, 45953, 29504, 45313, 29120, 28800, 45121,
       20480, 37057, 37249, 20800, 37633, 21440, 21120, 37441, 38401, 22208, 22400, 38721,
       21760, 38337, 38017, 21568, 39937, 23744, 23936, 40257, 24320, 40897, 40577, 24128,
       23040, 39617, 39809, 23360, 39169, 22976, 22656, 38977, 34817, 18624, 18816, 35137,
       19200, 35777, 35457, 19008, 19968, 36545, 36737, 20288, 36097, 19904, 19584, 35905,
       17408, 33985, 34177, 17728, 34561, 18368, 18048, 34369, 33281, 17088, 17280, 33601,
       16640, 33217, 32897, 16448 >>

\* one round of the loop of tmb_crc16
crc16_step(data, crc) ==
    LET byte == Xor16(data, crc) % 256
    IN  Xor16(crc \div 256, crc16_table[byte + 1])

\* the loop of tmb_crc16 over buffer[lo .. hi - 1], bytes taken in index order
\* (the range is halved, and the first half evaluated before the second is
\* entered, only to keep the evaluation shallow)
RECURSIVE crc16_loop(_, _, _, _)
crc16_loop(buffer, lo, hi, crc) ==
    IF hi <= lo THEN crc
    ELSE IF hi - lo = 1 THEN crc16_step(buffer[lo + 1], crc)
    ELSE LET mid == (lo + hi) \div 2
             first == crc16_loop(buffer, lo, mid, crc)
         IN  IF first >= 0 THEN crc16_loop(buffer, mid, hi, first) ELSE first

\* variant: the register starts at 0 instead of 0xFFFF
tmb_crc16_init_zero(buffer, buffer_size) == crc16_loop(buffer, 0, buffer_size, 0)

tmb_crc16(buffer, buffer_size) == crc16_loop(buffer, 0, buffer_size, 65535)

RECURSIVE lrc_sum(_, _, _)
lrc_sum(buffer, lo, hi) ==
    IF hi <= lo THEN 0
    ELSE IF hi - lo = 1 THEN buffer[lo + 1]
    ELSE LET mid == (lo + hi) \div 2
         IN  (lrc_sum(buffer, lo, mid) + lrc_sum(buffer, mid, hi)) % 256

tmb_lrc(buffer, buffer_size) == (256 - lrc_sum(buffer, 0, buffer_size)) % 256

(* ------------------------------------------------------------------ *)
(* The scratch buffer.  A buffer is the sequence of the bytes written   *)
(* so far (index i of the C array is element i + 1); Stale marks a byte *)
(* whose value is whatever the memory held before.  A store at an index *)
(* at or beyond the capacity lands in adjacent memory: the sequence     *)
(* grows past the capacity and the store is recorded as out of bounds.  *)
(* ------------------------------------------------------------------ *)
Stale == -1

\* memcpy(&buf[idx], bytes, Len(bytes))
BufCopy(buf, idx, bytes) ==
    LET end == idx + Len(bytes)
        n == IF Len(buf) > end THEN Len(buf) ELSE end
    IN  IF bytes = << >> THEN buf
        ELSE [i \in 1..n |->
                IF i > idx /\ i <= end THEN bytes[i - idx]
                ELSE IF i <= Len(buf) THEN buf[i] ELSE Stale]

\* buf[idx] = val
BufStore(buf, idx, val) == BufCopy(buf, idx, << val >>)

BufAt(buf, idx) == IF idx >= 0 /\ idx < Len(buf) THEN buf[idx + 1] ELSE Stale

\* the first n elements of a caller array, Stale where it is shorter
FirstN(bytes, n) == [i \in 1..n |-> IF i <= Len(bytes) THEN bytes[i] ELSE Stale]

(* ------------------------------------------------------------------ *)
(* ADU builder (tmb_adu_t).  error is the value the enclosing           *)
(* TMB_ERROR_CHECK chain returns: once it is not TMB_SUCCESS every      *)
(* later step of the chain is skipped.                                  *)
(* ------------------------------------------------------------------ *)
TMB_TO_HEX(i) == IF i <= 9 THEN 48 + i ELSE 65 - 10 + i

\* data = Stale is a byte whose value is whatever the memory held: what is
\* stored for it (the byte, or its two hex digits) is Stale as well
tmb_adu_add_uint8(adu, data) ==
    IF adu.error # TMB_SUCCESS THEN adu
    ELSE IF adu.encapsulation = TMB_TRANSPORT_PROTOCOL_ASCII
    THEN IF adu.size + 1 < adu.capacity
         THEN [adu EXCEPT
                 !.buffer = BufStore(BufStore(adu.buffer, adu.size,
                                              IF data = Stale THEN Stale
                                              ELSE TMB_TO_HEX(data \div 16)),
                                     adu.size + 1,
                                     IF data = Stale THEN Stale ELSE TMB_TO_HEX(data % 16)),
                 !.size = adu.size + 2]
         ELSE [adu EXCEPT !.error = TMB_E_NO_MEMORY]
    ELSE IF adu.size < adu.capacity
         THEN [adu EXCEPT !.buffer = BufStore(adu.buffer, adu.size, data),
                          !.size = adu.size + 1]
         ELSE [adu EXCEPT !.error = TMB_E_NO_MEMORY]

tmb_adu_add_uint16_le(adu, data) ==
    IF data = Stale THEN tmb_adu_add_uint8(tmb_adu_add_uint8(adu, Stale), Stale)
    ELSE tmb_adu_add_uint8(tmb_adu_add_uint8(adu, LoByte(data)), HiByte(data))

tmb_adu_add_uint16_be(adu, data) ==
    IF data = Stale THEN tmb_adu_add_uint8(tmb_adu_add_uint8(adu, Stale), Stale)
    ELSE tmb_adu_add_uint8(tmb_adu_add_uint8(adu, HiByte(data)), LoByte(data))

\* TMB_ERROR_CHECK is applied to the truth value of the capacity test: when the
\* bytes fit, the value 1 is returned as the error; when they do not, the copy
\* goes ahead past the capacity.
tmb_adu_add_bytes(adu, bytes, bytes_size) ==
    IF adu.error # TMB_SUCCESS THEN adu
    ELSE IF UGe(adu.capacity - adu.size, bytes_size)
    THEN [adu EXCEPT !.error = 1]
    ELSE [adu EXCEPT !.buffer = BufCopy(adu.buffer, adu.size, FirstN(bytes, bytes_size)),
                     !.size = adu.size + bytes_size,
                     !.oob = TRUE]

TMB_ADU_ASCII_START_BYTE == << 58 >>
TMB_ADU_ASCII_END_BYTES == << 13, 10 >>

\* variant: the broadcast address is stamped whatever the handle's address
tmb_adu_init_broadcast(buffer_size, encapsulation, transaction_identifier, device_address) ==
    LET adu == [encapsulation |-> encapsulation, capacity |-> buffer_size, size |-> 0,
                buffer |-> << >>, error |-> TMB_SUCCESS, oob |-> FALSE]
    IN  CASE encapsulation = TMB_TRANSPORT_PROTOCOL_ASCII ->
               tmb_adu_add_uint8(tmb_adu_add_bytes(adu, TMB_ADU_ASCII_START_BYTE, 1), 0)
          [] encapsulation = TMB_TRANSPORT_PROTOCOL_RTU ->
               tmb_adu_add_uint8(adu, 0)
          [] OTHER ->
               tmb_adu_add_uint8(
                 tmb_adu_add_uint16_be(
                   tmb_adu_add_uint16_be(
                     tmb_adu_add_uint16_be(adu, transaction_identifier),
                     TMB_MODBUS_PROTOCOL_IDENTIFIER),
                   0),
                 0)

tmb_adu_init(buffer_size, encapsulation, transaction_identifier, device_address) ==
    LET adu == [encapsulation |-> encapsulation, capacity |-> buffer_size, size |-> 0,
                buffer |-> << >>, error |-> TMB_SUCCESS, oob |-> FALSE]
    IN  CASE encapsulation = TMB_TRANSPORT_PROTOCOL_ASCII ->
               tmb_adu_add_uint8(tmb_adu_add_bytes(adu, TMB_ADU_ASCII_START_BYTE, 1),
                                 device_address)
          [] encapsulation = TMB_TRANSPORT_PROTOCOL_RTU ->
               tmb_adu_add_uint8(adu, device_address)
          [] OTHER ->
               tmb_adu_add_uint8(
                 tmb_adu_add_uint16_be(
                   tmb_adu_add_uint16_be(
                     tmb_adu_add_uint16_be(adu, transaction_identifier),
                     TMB_MODBUS_PROTOCOL_IDENTIFIER),
                   0),
                 device_address)

\* a checksum over bytes of which one is Stale is itself whatever those bytes
\* make it
tmb_adu_finalize(adu) ==
    IF adu.error # TMB_SUCCESS THEN adu
    ELSE LET known == \A i \in 1..adu.size : BufAt(adu.buffer, i - 1) # Stale
    IN   CASE adu.encapsulation = TMB_TRANSPORT_PROTOCOL_TCPIP ->
                LET size == adu.size % 65536
                IN  [adu EXCEPT !.buffer =
                        BufStore(BufStore(adu.buffer, TMB_ADU_TCPIP_SIZE_OFFSET,
                                          ((size \div 256) * 255) % 256),
                                 TMB_ADU_TCPIP_SIZE_OFFSET + 1, size % 256)]
           [] adu.encapsulation = TMB_TRANSPORT_PROTOCOL_RTU ->
                tmb_adu_add_uint16_le(adu, IF known THEN tmb_crc16(adu.buffer, adu.size)
                                           ELSE Stale)
           [] OTHER ->
                tmb_adu_add_bytes(tmb_adu_add_uint8(adu, IF known
                                                         THEN tmb_lrc(adu.buffer, adu.size)
                                                         ELSE Stale),
                                  TMB_ADU_ASCII_END_BYTES, 2)

\* the loop over request->write_multiple_registers.values; an element past the
\* end of the caller's array is whatever the memory behind the array holds
RECURSIVE adu_add_registers(_, _, _, _)
adu_add_registers(adu, values, i, quantity) ==
    IF i >= quantity \/ adu.error # TMB_SUCCESS THEN adu
    ELSE adu_add_registers(
           tmb_adu_add_uint16_be(adu, IF i < Len(values) THEN values[i + 1] ELSE Stale),
           values, i + 1, quantity)

\* Request fields: the union members of tmb_request_pdu_t overlay each other, so
\* start_address also holds write_single_*.address and quantity also holds
\* write_single_*.value.
tmb_adu_serialize_request(adu0, request) ==
    IF adu0.error # TMB_SUCCESS THEN adu0
    ELSE
    \* the result of adding the function code is not checked
    LET adu == [tmb_adu_add_uint8(adu0, request.function_code) EXCEPT !.error = TMB_SUCCESS]
        fc == request.function_code
        two == tmb_adu_add_uint16_be(tmb_adu_add_uint16_be(adu, request.start_address),
                                     request.quantity)
    IN  CASE fc \in {TMB_FUNCTION_READ_COILS, TMB_FUNCTION_READ_DISCRETE_INPUTS,
                     TMB_FUNCTION_READ_HOLDING_REGISTERS, TMB_FUNCTION_READ_INPUT_REGISTERS,
                     TMB_FUNCTION_WRITE_SINGLE_COIL, TMB_FUNCTION_WRITE_SINGLE_REGISTER} ->
               two
          [] fc = TMB_FUNCTION_WRITE_MULTIPLE_COILS ->
               tmb_adu_add_bytes(tmb_adu_add_uint8(two, request.byte_count),
                                 request.values, request.byte_count)
          [] fc = TMB_FUNCTION_WRITE_MULTIPLE_REGISTERS ->
               adu_add_registers(tmb_adu_add_uint8(two, request.byte_count),
                                 request.values, 0, request.quantity)
          [] OTHER -> [adu EXCEPT !.error = TMB_E_ILLEGAL_FUNCTION]

(* ------------------------------------------------------------------ *)
(* Response size oracle and parser                                      *)
(* ------------------------------------------------------------------ *)
TMB_IS_FUNCTION_EXCEPTION_CODE(code) == code > 128

\* variant: the sum is kept in a uint8_t
tmb_get_response_size_uint8(function_code, first_byte) ==
    IF function_code > 128 THEN 2
    ELSE IF function_code \in 1..4 THEN (2 + first_byte) % 256
    ELSE IF function_code \in {5, 6, 15, 16} THEN 5
    ELSE TMB_E_ILLEGAL_FUNCTION

tmb_get_response_size(function_code, first_byte) ==
    IF TMB_IS_FUNCTION_EXCEPTION_CODE(function_code) THEN 2
    ELSE CASE function_code \in {TMB_FUNCTION_READ_COILS, TMB_FUNCTION_READ_DISCRETE_INPUTS,
                                 TMB_FUNCTION_READ_HOLDING_REGISTERS,
                                 TMB_FUNCTION_READ_INPUT_REGISTERS} -> 2 + first_byte
           [] function_code \in {TMB_FUNCTION_WRITE_SINGLE_COIL,
                                 TMB_FUNCTION_WRITE_SINGLE_REGISTER,
                                 TMB_FUNCTION_WRITE_MULTIPLE_COILS,
                                 TMB_FUNCTION_WRITE_MULTIPLE_REGISTERS} -> 5
           [] OTHER -> TMB_E_ILLEGAL_FUNCTION

TMB_UINT16(buffer, base, i) == BufAt(buffer, base + i) * 256 + BufAt(buffer, base + i + 1)

\* The in-place conversion of buffer_size bytes at buffer[base..], for
\* buffer_size >= 1: the loop runs for i = 0, 2, ... while i < buffer_size - 1
\* and stores each big-endian pair back as a uint16_t of the host, which is
\* little-endian (low byte first).  values are the uint16_t elements the
\* returned pointer gives access to, buffer is the scratch buffer afterwards.
tmb_get_buffer_uint16(buffer, base, buffer_size) ==
    LET n == buffer_size \div 2
        known(k) == /\ BufAt(buffer, base + 2 * (k - 1)) # Stale
                    /\ BufAt(buffer, base + 2 * (k - 1) + 1) # Stale
        value(k) == IF known(k) THEN TMB_UINT16(buffer, base, 2 * (k - 1)) ELSE Stale
        byte(j) == IF ~known(j \div 2 + 1) THEN Stale
                   ELSE IF j % 2 = 0 THEN LoByte(value(j \div 2 + 1))
                   ELSE HiByte(value(j \div 2 + 1))
    IN  [values |-> [k \in 1..n |-> value(k)],
         buffer |-> BufCopy(buffer, base, [i \in 1..(2 * n) |-> byte(i - 1)])]

\* what the caller's response struct holds before tmb_response_parse fills it
NoResponse ==
    [function_code |-> Stale, byte_count |-> Stale, values |-> << >>,
     start_address |-> Stale, quantity |-> Stale]

\* buffer is the scratch buffer and base the index of the first PDU byte;
\* returns the error, the response and the scratch buffer afterwards; crashed
\* marks the conversion loop running off the buffer (byte count 0 makes its
\* bound wrap to SIZE_MAX)
tmb_response_parse(response, buffer, base, buffer_size) ==
    LET b0 == BufAt(buffer, base)
        b1 == BufAt(buffer, base + 1)
        r1 == [response EXCEPT !.function_code = b0]
        ret(e, r) == [error |-> e, response |-> r, crashed |-> FALSE, buffer |-> buffer]
    IN  IF ~UGe(buffer_size, 2) THEN ret(TMB_E_INVALID_ARGUMENTS, response)
        ELSE IF ~ULe(tmb_get_response_size(b0, b1), buffer_size)
        THEN ret(TMB_E_INVALID_ARGUMENTS, response)
        ELSE IF TMB_IS_FUNCTION_EXCEPTION_CODE(b0) THEN ret(TMB_E_INVALID_ARGUMENTS, r1)
        ELSE CASE b0 \in {TMB_FUNCTION_READ_COILS, TMB_FUNCTION_READ_DISCRETE_INPUTS} ->
                    ret(TMB_SUCCESS,
                         [r1 EXCEPT !.byte_count = b1,
                                    !.values = [i \in 1..b1 |-> BufAt(buffer, base + 1 + i)]])
               [] b0 \in {TMB_FUNCTION_READ_HOLDING_REGISTERS,
                          TMB_FUNCTION_READ_INPUT_REGISTERS} ->
                    IF b1 = 0
                    THEN [error |-> TMB_SUCCESS, response |-> [r1 EXCEPT !.byte_count = b1],
                          crashed |-> TRUE, buffer |-> buffer]
                    ELSE LET converted == tmb_get_buffer_uint16(buffer, base + 2, b1)
                         IN  [error |-> TMB_SUCCESS,
                              response |-> [r1 EXCEPT !.byte_count = b1,
                                                      !.values = converted.values],
                              crashed |-> FALSE,
                              buffer |-> converted.buffer]
               [] b0 \in {TMB_FUNCTION_WRITE_SINGLE_COIL, TMB_FUNCTION_WRITE_SINGLE_REGISTER,
                          TMB_FUNCTION_WRITE_MULTIPLE_COILS,
                          TMB_FUNCTION_WRITE_MULTIPLE_REGISTERS} ->
                    ret(TMB_SUCCESS,
                         [r1 EXCEPT !.start_address = TMB_UINT16(buffer, base, 1),
                                    !.quantity = TMB_UINT16(buffer, base, 3)])
               [] OTHER -> ret(TMB_E_ILLEGAL_FUNCTION, r1)

(* ------------------------------------------------------------------ *)
(* Request validation                                                   *)
(* ------------------------------------------------------------------ *)
\* variant: read quantities have no upper limit
tmb_request_validate_no_read_limit(request) ==
    IF request.function_code \in {TMB_FUNCTION_READ_COILS, TMB_FUNCTION_READ_DISCRETE_INPUTS,
                                  TMB_FUNCTION_READ_HOLDING_REGISTERS,
                                  TMB_FUNCTION_READ_INPUT_REGISTERS}
    THEN (IF request.quantity >= 1 THEN TMB_SUCCESS ELSE TMB_E_ILLEGAL_DATA_VALUE)
    ELSE TMB_E_ILLEGAL_FUNCTION

\* variant: WriteSingleCoil takes every non-zero value for "on"
tmb_request_validate_any_coil_value(request) ==
    IF request.function_code \in {TMB_FUNCTION_WRITE_SINGLE_COIL,
                                  TMB_FUNCTION_WRITE_SINGLE_REGISTER}
    THEN TMB_SUCCESS
    ELSE TMB_E_ILLEGAL_FUNCTION

\* variant: a function code outside the switch passes
tmb_request_validate_default_passes(request) ==
    IF request.function_code \in {TMB_FUNCTION_READ_COILS, TMB_FUNCTION_READ_DISCRETE_INPUTS,
                                  TMB_FUNCTION_READ_HOLDING_REGISTERS,
                                  TMB_FUNCTION_READ_INPUT_REGISTERS,
                                  TMB_FUNCTION_WRITE_SINGLE_COIL,
                                  TMB_FUNCTION_WRITE_SINGLE_REGISTER,
                                  TMB_FUNCTION_WRITE_MULTIPLE_COILS,
                                  TMB_FUNCTION_WRITE_MULTIPLE_REGISTERS}
    THEN TMB_E_ILLEGAL_DATA_VALUE
    ELSE TMB_SUCCESS

tmb_request_validate(request) ==
    LET fc == request.function_code
        q == request.quantity
        check(ok) == IF ok THEN TMB_SUCCESS ELSE TMB_E_ILLEGAL_DATA_VALUE
    IN  CASE fc = TMB_FUNCTION_READ_COILS ->
               check(TMB_READ_COIL_MIN_QUANTITY <= q /\ q <= TMB_READ_COIL_MAX_QUANTITY)
          [] fc = TMB_FUNCTION_READ_DISCRETE_INPUTS ->
               check(TMB_READ_DISCRETE_INPUT_MIN_QUANTITY <= q
                     /\ q <= TMB_READ_DISCRETE_INPUT_MAX_QUANTITY)
          [] fc = TMB_FUNCTION_READ_HOLDING_REGISTERS ->
               check(TMB_READ_HOLDING_REGISTER_MIN_QUANTITY <= q
                     /\ q <= TMB_READ_HOLDING_REGISTER_MAX_QUANTITY)
          [] fc = TMB_FUNCTION_READ_INPUT_REGISTERS ->
               \* the upper bound is read through read_holding_registers.quantity,
               \* the same union bytes as read_input_registers.quantity
               check(TMB_READ_INPUT_REGISTER_MIN_QUANTITY <= q
                     /\ q <= TMB_READ_HOLDING_REGISTER_MAX_QUANTITY)
          [] fc = TMB_FUNCTION_WRITE_SINGLE_COIL ->
               check(q = TMB_WRITE_SINGLE_COIL_TRUE_VALUE
                     \/ q = TMB_WRITE_SINGLE_COIL_FALSE_VALUE)
          [] fc = TMB_FUNCTION_WRITE_SINGLE_REGISTER -> TMB_SUCCESS
          [] fc = TMB_FUNCTION_WRITE_MULTIPLE_COILS ->
               IF ~(TMB_WRITE_MULTIPLE_COILS_MIN_QUANTITY <= q
                    /\ q <= TMB_WRITE_MULTIPLE_COILS_MAX_QUANTITY)
               THEN TMB_E_ILLEGAL_DATA_VALUE
               ELSE check(request.byte_count
                          = q \div 8 + (IF q % 8 = 0 THEN 1 ELSE 0))
          [] fc = TMB_FUNCTION_WRITE_MULTIPLE_REGISTERS ->
               IF ~(TMB_WRITE_MULTIPLE_REGISTERS_MIN_QUANTITY <= q
                    /\ q <= TMB_WRITE_MULTIPLE_COILS_MAX_QUANTITY)
               THEN TMB_E_ILLEGAL_DATA_VALUE
               ELSE check(request.byte_count = q * 2)
          [] OTHER -> TMB_E_ILLEGAL_FUNCTION

(* ------------------------------------------------------------------ *)
(* The peer and the transport (environment).  The peer answers a        *)
(* request that was written completely with one reply ADU; the          *)
(* transport hands its bytes over in arrival order.  The peer computes  *)
(* its CRC bit by bit from the CRC-16/Modbus definition.                *)
(* ------------------------------------------------------------------ *)
RECURSIVE CrcShift(_, _)
CrcShift(crc, n) ==
    IF n = 0 THEN crc
    ELSE CrcShift(IF crc % 2 = 1 THEN Xor16(crc \div 2, 40961) ELSE crc \div 2, n - 1)

RECURSIVE Crc16Modbus(_, _, _, _)
Crc16Modbus(bytes, lo, hi, crc) ==
    IF hi <= lo THEN crc
    ELSE IF hi - lo = 1 THEN CrcShift(Xor16(crc, bytes[lo + 1]), 8)
    ELSE LET mid == (lo + hi) \div 2
             first == Crc16Modbus(bytes, lo, mid, crc)
         IN  IF first >= 0 THEN Crc16Modbus(bytes, mid, hi, first) ELSE first

CrcOf(bytes) == Crc16Modbus(bytes, 0, Len(bytes), 65535)

Payload(bc) ==
    IF bc = 6 THEN << 2, 43, 0, 0, 0, 100 >>
    ELSE [i \in 1..bc |-> (85 * i) % 256]

ByteCounts == {0, 1, 6, 250, 252}
ExceptionCodes == {0, 2, 255}

ReadFunctions == {TMB_FUNCTION_READ_COILS, TMB_FUNCTION_READ_DISCRETE_INPUTS,
                  TMB_FUNCTION_READ_HOLDING_REGISTERS, TMB_FUNCTION_READ_INPUT_REGISTERS}
WriteFunctions == {TMB_FUNCTION_WRITE_SINGLE_COIL, TMB_FUNCTION_WRITE_SINGLE_REGISTER,
                   TMB_FUNCTION_WRITE_MULTIPLE_COILS, TMB_FUNCTION_WRITE_MULTIPLE_REGISTERS}
SupportedFunctions == ReadFunctions \cup WriteFunctions

NormalPdus(req) ==
    IF req.function_code \in ReadFunctions
    THEN {<< req.function_code, bc >> \o Payload(bc) : bc \in ByteCounts}
    ELSE {<< req.function_code, HiByte(req.start_address), LoByte(req.start_address),
             HiByte(req.quantity), LoByte(req.quantity) >>}

ExceptionPdus(req) == {<< req.function_code + 128, c >> : c \in ExceptionCodes}

ReplyPdus(req) == NormalPdus(req) \cup ExceptionPdus(req)

Prefix(encapsulation) == IF encapsulation = TMB_TRANSPORT_PROTOCOL_TCPIP THEN 7 ELSE 1
Trailer(encapsulation) == IF encapsulation = TMB_TRANSPORT_PROTOCOL_TCPIP THEN 0 ELSE 2

\* what a transport call can return when at most avail bytes can be moved: an
\* error, all of them, or fewer: one byte or all but one (while the exchange
\* may still have short returns)
ErrorReturns == {0, -1}
TransportReturnsWith(errs, avail, may_be_short) ==
    errs
      \cup (IF avail > 0 THEN {avail} ELSE {})
      \cup (IF may_be_short THEN {k \in {1, avail - 1} : 0 < k /\ k < avail} ELSE {})

TransportReturns(avail, may_be_short) ==
    TransportReturnsWith(ErrorReturns, avail, may_be_short)

(* ------------------------------------------------------------------ *)
(* Bounds and inputs                                                    *)
(* ------------------------------------------------------------------ *)
MaxExchanges == 2
MaxShortReturns == 1
MaxApiCalls == 4

\* The handles a behaviour starts from: (encapsulation, buffer_size, number of
\* validated requests sent on the handle since tmb_init).  The transaction
\* identifier of a handle with n such requests behind it is n mod 65536.
HandleStarts ==
    { << TMB_TRANSPORT_PROTOCOL_RTU, TMB_ADU_RTU_MAX_SIZE, 0 >>,
      << TMB_TRANSPORT_PROTOCOL_TCPIP, TMB_ADU_TCPIP_MAX_SIZE, 0 >> }

\* handles whose scratch buffer is smaller than the largest ADU
SmallBufferStarts ==
    { << TMB_TRANSPORT_PROTOCOL_RTU, 10, 0 >>,
      << TMB_TRANSPORT_PROTOCOL_TCPIP, 12, 0 >> }

\* TCP handles that are fresh or about to use the last transaction identifier
\* before the wrap
WrapStarts ==
    { << TMB_TRANSPORT_PROTOCOL_TCPIP, TMB_ADU_TCPIP_MAX_SIZE, 0 >>,
      << TMB_TRANSPORT_PROTOCOL_TCPIP, TMB_ADU_TCPIP_MAX_SIZE, 65535 >> }

DeviceAddresses == {17}

Req(fc, a, q) ==
    [function_code |-> fc, start_address |-> a, quantity |-> q,
     byte_count |-> 0, values |-> << >>]

ReqMulti(fc, a, q, bc, vals) ==
    [function_code |-> fc, start_address |-> a, quantity |-> q,
     byte_count |-> bc, values |-> vals]

Requests ==
    { Req(TMB_FUNCTION_READ_HOLDING_REGISTERS, 107, 3),
      Req(TMB_FUNCTION_READ_HOLDING_REGISTERS, 107, 0),
      Req(TMB_FUNCTION_READ_HOLDING_REGISTERS, 107, 126),
      Req(TMB_FUNCTION_READ_COILS, 0, 8),
      Req(TMB_FUNCTION_READ_DISCRETE_INPUTS, 4660, 2001),
      Req(TMB_FUNCTION_READ_INPUT_REGISTERS, 1, 126),
      Req(TMB_FUNCTION_WRITE_SINGLE_COIL, 1, 65280),
      Req(TMB_FUNCTION_WRITE_SINGLE_COIL, 1, 1),
      Req(TMB_FUNCTION_WRITE_SINGLE_REGISTER, 1, 3),
      ReqMulti(TMB_FUNCTION_WRITE_MULTIPLE_COILS, 19, 8, 2, << 205, 1 >>),
      ReqMulti(TMB_FUNCTION_WRITE_MULTIPLE_REGISTERS, 1, 2, 4, << 10, 258 >>),
      Req(7, 0, 0) }

\* replies whose function code has the high bit set, whatever was asked
HighBitFunctions == {128, 129, 131, 255}
HighBitPdus == {<< f, c >> : f \in HighBitFunctions, c \in ExceptionCodes}

\* replies of functions the client does not support (7 ReadExceptionStatus,
\* 43 EncapsulatedInterfaceTransport, and 0, 100, which Modbus does not
\* define), each with one data byte
UnsupportedPdus == {<< f, d >> : f \in {0, 7, 43, 100}, d \in {0, 85}}

\* the CRC the peer puts on each reply it can send
PeerCrc ==
    [body \in {<< a >> \o pdu : a \in {0} \cup DeviceAddresses,
                                 pdu \in UNION {ReplyPdus(req) : req \in Requests}
                                           \cup HighBitPdus \cup UnsupportedPdus}
       |-> CrcOf(body)]

\* the reply ADUs for a PDU: on RTU with a right or a wrong CRC trailer
ReplyAdus(encapsulation, address, txid, pdu) ==
    IF encapsulation = TMB_TRANSPORT_PROTOCOL_TCPIP
    THEN {<< HiByte(txid), LoByte(txid), 0, 0, HiByte(Len(pdu) + 1), LoByte(Len(pdu) + 1),
             address >> \o pdu}
    ELSE LET body == << address >> \o pdu
             crc == PeerCrc[body]
         IN  {body \o << LoByte(c), HiByte(c) >> : c \in {crc, (crc + 1) % 65536}}

\* a null pointer, and the server's callback table after the memset of
\* tmb_init: every slot has address 0 and no callbacks
NULL == "NULL"
NoCallbacks == [i \in 1..TMB_SERVER_MAX_ADDRESSES |-> [address |-> 0, callbacks |-> NULL]]
NoCall ==
    [op |-> "none", n |-> 0, args |-> << >>, ret |-> TMB_SUCCESS, registered |-> << >>,
     invoked |-> << >>]

(* ------------------------------------------------------------------ *)
(* State                                                                *)
(* ------------------------------------------------------------------ *)
VARIABLES
    handle,             \* tmb_handle_t: is_valid, mode, encapsulation, buffer_size,
                        \*   client.device_address, client.last_transaction_identifier,
                        \*   server.callbacks (the mode checks keep each mode to its
                        \*   own member of the union)
    buffer,             \* the scratch buffer the handle points to
    pc,                 \* where tmb_client_send_request stands
    request,            \* the request of the running or last call
    response,           \* the caller's tmb_response_pdu_t
    result,             \* the value the last call returned
    adu_size,           \* adu.size of the request that was built
    transmitted_bytes,  \* tmb_send's counter
    rx_base,            \* index in the buffer where the running tmb_receive stores
    rx_want,            \* the byte count the running tmb_receive was asked for
    received_bytes,     \* tmb_receive's counter
    response_size,      \* the local response_size
    rx,                 \* bytes the transport holds for transport.read
    link_up,            \* FALSE once a transport call has failed
    calls,              \* validated requests since tmb_init
    exchanges,          \* calls of tmb_client_send_request in this behaviour
    api,                \* the last call of a function other than
                        \*   tmb_client_send_request: its name, its arguments, the
                        \*   value it returned, how many such calls were made in
                        \*   this behaviour, and (registered) for each address the
                        \*   callbacks of the last tmb_server_set_callback that
                        \*   succeeded for it since tmb_init, and (invoked) the
                        \*   callbacks the call invoked
    txid_at_entry,      \* last_transaction_identifier when the call started
    n_writes,           \* transport.write calls made by the call
    n_reads,            \* transport.read calls made by the call
    shorts,             \* transport calls of the call that moved fewer bytes than asked
    wire_out,           \* the bytes transport.write accepted during the call
    consumed,           \* number of bytes transport.read delivered during the call
    reply,              \* the bytes the transport holds for the reads of this call:
                        \*   what an earlier call left unread, then the reply ADU the
                        \*   peer sent in this exchange
    oob                 \* a store outside the scratch buffer has happened

vars == << handle, buffer, pc, request, response, result, adu_size, transmitted_bytes,
           rx_base, rx_want, received_bytes, response_size, rx, link_up, calls,
           exchanges, api, txid_at_entry, n_writes, n_reads, shorts, wire_out, consumed,
           reply,
           oob >>

NoRequest == Req(0, 0, 0)

InitWith(starts) ==
    /\ \E cfg \in starts :
         /\ handle = [is_valid |-> TRUE, mode |-> TMB_MODE_CLIENT,
                      encapsulation |-> cfg[1], buffer_size |-> cfg[2],
                      device_address |-> 0,
                      last_transaction_identifier |-> cfg[3] % 65536,
                      callbacks |-> NoCallbacks]
         /\ calls = cfg[3]
    /\ buffer = << >>
    /\ pc = "idle"
    /\ request = NoRequest
    /\ response = NoResponse
    /\ result = TMB_SUCCESS
    /\ adu_size = 0
    /\ transmitted_bytes = 0
    /\ rx_base = 0
    /\ rx_want = 0
    /\ received_bytes = 0
    /\ response_size = 0
    /\ rx = << >>
    /\ link_up = TRUE
    /\ exchanges = 0
    /\ api = NoCall
    /\ txid_at_entry = handle.last_transaction_identifier
    /\ n_writes = 0
    /\ n_reads = 0
    /\ shorts = 0
    /\ wire_out = << >>
    /\ consumed = 0
    /\ reply = << >>
    /\ oob = FALSE

Init == InitWith(HandleStarts)
InitSmallBuffer == InitWith(SmallBufferStarts)
InitWrap == InitWith(WrapStarts)

(* ------------------------------------------------------------------ *)
(* tmb_client_send_request                                              *)
(* ------------------------------------------------------------------ *)
\* the call returns e; its locals are gone
Return(e) ==
    /\ pc' = "done"
    /\ result' = e
    /\ adu_size' = 0
    /\ transmitted_bytes' = 0
    /\ rx_base' = 0
    /\ rx_want' = 0
    /\ received_bytes' = 0
    /\ response_size' = 0

IsSerial(encapsulation) ==
    encapsulation \in {TMB_TRANSPORT_PROTOCOL_RTU, TMB_TRANSPORT_PROTOCOL_ASCII}

response_offset(encapsulation) == IF IsSerial(encapsulation) THEN 1 ELSE 7

\* the request ADU as tmb_adu_init, tmb_adu_serialize_request and
\* tmb_adu_finalize leave it
build_request_adu(h, req) ==
    tmb_adu_finalize(
      tmb_adu_serialize_request(
        tmb_adu_init(h.buffer_size, h.encapsulation, h.last_transaction_identifier,
                     h.device_address),
        req))

\* the argument checks and the pre-validation: the error the call returns
\* before it builds anything, TMB_SUCCESS when it goes on
\* variant: the request is not pre-validated
precheck_without_validation(h, req) ==
    IF ~h.is_valid THEN TMB_E_INVALID_ARGUMENTS
    ELSE IF h.mode # TMB_MODE_CLIENT THEN TMB_E_INVALID_MODE
    ELSE TMB_SUCCESS

precheck(h, req) ==
    IF ~h.is_valid THEN TMB_E_INVALID_ARGUMENTS
    ELSE IF h.mode # TMB_MODE_CLIENT THEN TMB_E_INVALID_MODE
    ELSE tmb_request_validate(req)

\* variant: the counter is wider than 16 bits
uint16_increment_no_wrap(v) == v + 1

\* last_transaction_identifier++ on the uint16_t field
uint16_increment(v) == (v + 1) % 65536

\* variant: building a request also clears the device address
handle_after_build_clears_address(h) ==
    [h EXCEPT !.last_transaction_identifier = uint16_increment(h.last_transaction_identifier),
              !.device_address = 0]

\* the handle once the arguments of tmb_adu_init were evaluated: the only
\* store to the handle in the whole call
handle_after_build(h) ==
    [h EXCEPT !.last_transaction_identifier = uint16_increment(h.last_transaction_identifier)]

\* Entry of the call up to the first transport.write: argument checks,
\* validation, building of the request ADU.  The bytes an earlier call left in
\* the scratch buffer are Stale for this call (the call reads no byte it has not
\* written or received itself), so the buffer restarts as the bytes built here.
\* Bytes of an earlier reply that are still waiting in the transport stay
\* there: the call has no means to drain them.
tmb_client_send_request(req) ==
    /\ pc \in {"idle", "done"}
    /\ exchanges < MaxExchanges
    /\ exchanges' = exchanges + 1
    /\ request' = req
    /\ response' = NoResponse
    /\ txid_at_entry' = handle.last_transaction_identifier
    /\ n_writes' = 0
    /\ n_reads' = 0
    /\ shorts' = 0
    /\ wire_out' = << >>
    /\ consumed' = 0
    /\ reply' = << >>
    /\ UNCHANGED << rx, link_up, api >>
    /\ IF precheck(handle, req) # TMB_SUCCESS
       THEN Return(precheck(handle, req)) /\ oob' = FALSE
            /\ UNCHANGED << handle, buffer, calls >>
       ELSE LET adu == build_request_adu(handle, req)
            IN  /\ handle' = handle_after_build(handle)
                /\ calls' = calls + 1
                /\ buffer' = adu.buffer
                /\ oob' = adu.oob
                /\ IF adu.error # TMB_SUCCESS
                   THEN Return(adu.error)
                   ELSE /\ pc' = "send"
                        /\ adu_size' = adu.size
                        /\ transmitted_bytes' = 0
                        /\ UNCHANGED << result, rx_base, rx_want, received_bytes,
                                        response_size >>

\* variant: every write is offered the start of the ADU again
tmb_send_offer_from_start(buf, size, transmitted) == SubSeq(buf, 1, size - transmitted)

\* the bytes tmb_send offers to transport.write: buffer + transmitted_bytes,
\* buffer_size - transmitted_bytes of them
tmb_send_offer(buf, size, transmitted) == SubSeq(buf, transmitted + 1, size)

\* One transport.write call of tmb_send.  When the last byte of the ADU has
\* been accepted the peer answers with one of the ADUs of replies, which
\* arrives behind the bytes an earlier call left unread, and the first
\* tmb_receive starts.
tmb_send_to(replies) ==
    /\ pc = "send"
    /\ LET offered == tmb_send_offer(buffer, adu_size, transmitted_bytes)
       IN  \E nbytes \in TransportReturns(IF link_up THEN Len(offered) ELSE 0,
                                              shorts < MaxShortReturns) :
             /\ n_writes' = n_writes + 1
             /\ shorts' = IF 0 < nbytes /\ nbytes < Len(offered) THEN shorts + 1 ELSE shorts
             /\ UNCHANGED << handle, buffer, request, response, calls, exchanges, api,
                             txid_at_entry, n_reads, consumed, oob >>
             /\ IF nbytes <= 0
                THEN /\ Return(TMB_E_TRANSPORT)
                     /\ link_up' = FALSE
                     /\ rx' = << >>
                     /\ UNCHANGED << wire_out, reply >>
                ELSE /\ wire_out' = wire_out \o SubSeq(offered, 1, nbytes)
                     /\ transmitted_bytes' = transmitted_bytes + nbytes
                     /\ UNCHANGED << result, adu_size, response_size, link_up >>
                     /\ IF transmitted_bytes + nbytes < adu_size
                        THEN UNCHANGED << pc, rx, reply, rx_base, rx_want, received_bytes >>
                        ELSE /\ pc' = "recv_head"
                             /\ rx_base' = 0
                             /\ rx_want' = response_offset(handle.encapsulation)
                                           + TMB_RESPONSE_LOOKAHEAD_BYTES
                             /\ received_bytes' = 0
                             /\ \E adu \in replies :
                                    /\ reply' = rx \o adu
                                    /\ rx' = rx \o adu

\* the replies of a peer that answers the request that was sent
PeerReplies ==
    UNION {ReplyAdus(handle.encapsulation, handle.device_address, txid_at_entry, pdu) :
              pdu \in ReplyPdus(request)}

tmb_send == tmb_send_to(PeerReplies)

\* variant: every exception response is reported as the generic failure
exception_error_generic(exception_code) == TMB_FAILURE

\* the value returned for an exception response
exception_error(exception_code) ==
    IF exception_code # 0 THEN exception_code ELSE TMB_FAILURE

\* what the call does once the look-ahead bytes are in the buffer
after_lookahead(h, buf) ==
    LET off == response_offset(h.encapsulation)
        fc == BufAt(buf, off)
        b1 == BufAt(buf, off + 1)
        size == tmb_get_response_size(fc, b1)
                + (IF IsSerial(h.encapsulation) THEN TMB_ADU_CRC_LENGTH ELSE 0)
    IN  IF TMB_IS_FUNCTION_EXCEPTION_CODE(fc)
        THEN [next |-> "return", error |-> exception_error(b1), size |-> 0]
        ELSE IF size > TMB_RESPONSE_LOOKAHEAD_BYTES
        THEN IF size <= h.buffer_size
             THEN [next |-> "receive", error |-> TMB_SUCCESS, size |-> size]
             ELSE [next |-> "return", error |-> TMB_E_NO_MEMORY, size |-> size]
        ELSE [next |-> "parse", error |-> TMB_SUCCESS, size |-> size]

\* variant: the trailer is not compared
crc_matches_any(buf, off, size) == TRUE

\* the CRC comparison of the RTU branch
crc_matches(buf, off, size) ==
    LET crc == tmb_crc16(buf, off + size - TMB_ADU_CRC_LENGTH)
    IN  /\ BufAt(buf, off + size - 2) = crc % 256
        /\ BufAt(buf, off + size - 1) = (crc \div 256) % 256

\* the end of the call once the whole response is in the buffer: the error,
\* the response and the scratch buffer as tmb_response_parse leaves it
check_and_parse(h, buf, size, resp) ==
    LET off == response_offset(h.encapsulation)
    IN  IF h.encapsulation = TMB_TRANSPORT_PROTOCOL_RTU /\ ~crc_matches(buf, off, size)
        THEN [error |-> TMB_E_INVALID_CRC, response |-> resp, crashed |-> FALSE,
              buffer |-> buf]
        ELSE tmb_response_parse(resp, buf, off, size - off)

Finish(buf, size) ==
    LET out == check_and_parse(handle, buf, size, response)
    IN  /\ response' = out.response
        /\ buffer' = out.buffer
        /\ IF out.crashed
           THEN /\ pc' = "crashed"
                /\ UNCHANGED << result, adu_size, transmitted_bytes, rx_base, rx_want,
                                received_bytes, response_size >>
           ELSE Return(out.error)

\* Variant of tmb_receive_ask that asks for the whole size on every read.
tmb_receive_ask_whole(size, received_bytes_) ==
    size

\* The byte count tmb_receive passes to transport.read: what is still missing.
tmb_receive_ask(size, received_bytes_) ==
    size - received_bytes_

\* One transport.read call of tmb_receive, and what follows it in
\* tmb_client_send_request when it completes the tmb_receive.
\* errs are the values transport.read returns when it moves no byte.
tmb_receive_on(errs) ==
    /\ pc \in {"recv_head", "recv_body"}
    /\ LET want == tmb_receive_ask(rx_want, received_bytes)
           at == rx_base + received_bytes
       IN  \E nbytes \in TransportReturnsWith(errs,
                                              IF link_up THEN Min(want, Len(rx)) ELSE 0,
                                              shorts < MaxShortReturns) :
             /\ n_reads' = n_reads + 1
             /\ shorts' = IF 0 < nbytes /\ nbytes < want THEN shorts + 1 ELSE shorts
             /\ UNCHANGED << handle, request, calls, exchanges, api, txid_at_entry, n_writes,
                             wire_out, reply >>
             /\ IF nbytes <= 0
                THEN /\ Return(TMB_E_TRANSPORT)
                     /\ link_up' = FALSE
                     /\ rx' = << >>
                     /\ UNCHANGED << buffer, response, consumed, oob >>
                ELSE LET buf == BufCopy(buffer, at, SubSeq(rx, 1, nbytes))
                     IN  /\ rx' = SubSeq(rx, nbytes + 1, Len(rx))
                         /\ consumed' = consumed + nbytes
                         /\ oob' = (oob \/ at + nbytes > handle.buffer_size)
                         /\ UNCHANGED link_up
                         /\ IF received_bytes + nbytes < rx_want
                            THEN /\ received_bytes' = received_bytes + nbytes
                                 /\ buffer' = buf
                                 /\ UNCHANGED << pc, result, response, adu_size,
                                                 transmitted_bytes, rx_base, rx_want,
                                                 response_size >>
                            ELSE IF pc = "recv_body"
                            THEN Finish(buf, response_size)
                            ELSE LET step == after_lookahead(handle, buf)
                                 IN  CASE step.next = "return" ->
                                            /\ Return(step.error)
                                            /\ buffer' = buf
                                            /\ UNCHANGED response
                                       [] step.next = "parse" ->
                                            Finish(buf, step.size)
                                       [] OTHER ->
                                            /\ pc' = "recv_body"
                                            /\ buffer' = buf
                                            /\ response_size' = step.size
                                            /\ rx_base' = TMB_RESPONSE_LOOKAHEAD_BYTES
                                                  + response_offset(handle.encapsulation)
                                            /\ rx_want' = step.size
                                                          - TMB_RESPONSE_LOOKAHEAD_BYTES
                                            /\ received_bytes' = 0
                                            /\ UNCHANGED << result, response, adu_size,
                                                            transmitted_bytes >>

tmb_receive == tmb_receive_on(ErrorReturns)

tmb_client_set_device_address(address) ==
    /\ pc \in {"idle", "done"}
    /\ api.n < MaxApiCalls
    /\ LET ret == IF ~handle.is_valid THEN TMB_E_INVALID_ARGUMENTS
                  ELSE IF handle.mode # TMB_MODE_CLIENT THEN TMB_E_INVALID_MODE
                  ELSE TMB_SUCCESS
       IN  /\ api' = [api EXCEPT !.op = "tmb_client_set_device_address",
                                 !.n = api.n + 1, !.args = << address >>, !.ret = ret]
           /\ handle' = IF ret = TMB_SUCCESS
                        THEN [handle EXCEPT !.device_address = address]
                        ELSE handle
    /\ UNCHANGED << buffer, pc, request, response, result, adu_size, transmitted_bytes,
                    rx_base, rx_want, received_bytes, response_size, rx, link_up, calls,
                    exchanges, txid_at_entry, n_writes, n_reads, shorts, wire_out,
                    consumed, reply, oob >>

SendRequest == \E req \in Requests : tmb_client_send_request(req)

SetDeviceAddress ==
    \E address \in DeviceAddresses :
        handle.device_address # address /\ tmb_client_set_device_address(address)

Next ==
    \/ SendRequest
    \/ tmb_send
    \/ tmb_receive
    \/ SetDeviceAddress

Spec == Init /\ [][Next]_vars
SpecSmallBuffer == InitSmallBuffer /\ [][Next]_vars
SpecWrap == InitWrap /\ [][Next]_vars


(* ------------------------------------------------------------------ *)
(* The register read wrappers.  They build the request, run             *)
(* tmb_client_send_request and, when it succeeded, memcpy byte_count     *)
(* bytes from the response's pointer into the caller's values array.    *)
(* ------------------------------------------------------------------ *)
RegisterStarts == { << TMB_TRANSPORT_PROTOCOL_RTU, TMB_ADU_RTU_MAX_SIZE, 0 >> }
RegisterReads == { << 107, 3 >>, << 8, 3 >> }

tmb_read_holding_registers(start_address, quantity) ==
    tmb_client_send_request(Req(TMB_FUNCTION_READ_HOLDING_REGISTERS, start_address, quantity))

tmb_read_input_registers(start_address, quantity) ==
    tmb_client_send_request(Req(TMB_FUNCTION_READ_INPUT_REGISTERS, start_address, quantity))

\* variant of read_registers_values that copies each pair of bytes swapped
read_registers_values_swapped(resp, buf, at) ==
    [i \in 1..resp.byte_count |->
        BufAt(buf, at + (IF i % 2 = 1 THEN i ELSE i - 2))]

\* The bytes the wrapper's memcpy of byte_count bytes puts at the start of the
\* caller's values array; element k of a uint16_t array is bytes 2k - 1 and
\* 2k, low byte first.  The members of the response union overlay each
\* other: after the reply of a read, the source is the payload in the scratch
\* buffer, from index at on, as tmb_response_parse left it; after the reply of
\* a write, the count is the first byte of the union, the low byte of the
\* address, and the source pointer was never set, so that the bytes are
\* whatever that pointer reaches (when the copy does not fault: see
\* wrapper_memcpy_faults).
read_registers_values(resp, buf, at) ==
    IF resp.function_code \in ReadFunctions
    THEN [i \in 1..resp.byte_count |-> BufAt(buf, at + i - 1)]
    ELSE [i \in 1..LoByte(resp.start_address) |-> Stale]

\* the wrapper's return value and the bytes written to the caller's values
\* array once a read wrapper has returned: an error of tmb_client_send_request
\* is passed on and nothing is copied
wrapper_return == result
values ==
    IF pc = "done" /\ result = TMB_SUCCESS /\ request.function_code \in ReadFunctions
    THEN read_registers_values(response, buffer,
                               response_offset(handle.encapsulation) + 2)
    ELSE << >>

\* The memcpy of a read wrapper whose tmb_client_send_request returned
\* TMB_SUCCESS on the reply of a write: it reads through a pointer that was
\* never set, and faults.  (The other outcome, a copy of indeterminate bytes,
\* is the state the call has left.)
wrapper_memcpy_faults ==
    /\ pc = "done" /\ result = TMB_SUCCESS /\ exchanges > 0
    /\ request.function_code \in ReadFunctions
    /\ response.function_code \in WriteFunctions
    /\ LoByte(response.start_address) > 0
    /\ pc' = "crashed"
    /\ UNCHANGED << handle, buffer, request, response, result, adu_size, transmitted_bytes,
                    rx_base, rx_want, received_bytes, response_size, rx, link_up, calls,
                    exchanges, api, txid_at_entry, n_writes, n_reads, shorts, wire_out,
                    consumed, reply, oob >>

ReadHoldingRegisters == \E r \in RegisterReads : tmb_read_holding_registers(r[1], r[2])
ReadInputRegisters == \E r \in RegisterReads : tmb_read_input_registers(r[1], r[2])

InitRegisters == InitWith(RegisterStarts)

NextRegisters ==
    \/ ReadHoldingRegisters
    \/ ReadInputRegisters
    \/ tmb_send
    \/ tmb_receive

SpecRegisters == InitRegisters /\ [][NextRegisters]_vars

(* ------------------------------------------------------------------ *)
(* A peer whose replies carry a function code with the high bit set.    *)
(* ------------------------------------------------------------------ *)
HighBitReplies ==
    UNION {ReplyAdus(handle.encapsulation, handle.device_address, txid_at_entry, pdu) :
              pdu \in HighBitPdus}

tmb_send_high_bit == tmb_send_to(HighBitReplies)

NextHighBit ==
    \/ ReadHoldingRegisters
    \/ tmb_send_high_bit
    \/ tmb_receive

SpecHighBit == Init /\ [][NextHighBit]_vars

(* ------------------------------------------------------------------ *)
(* A TCP peer whose replies carry a malformed MBAP header: a protocol   *)
(* identifier other than 0, or a length field other than 1 + the        *)
(* number of PDU bytes that follow the unit identifier.                  *)
(* ------------------------------------------------------------------ *)
TcpStarts == { << TMB_TRANSPORT_PROTOCOL_TCPIP, TMB_ADU_TCPIP_MAX_SIZE, 0 >> }
RegisterWrites == { << 1, 3 >>, << 2, 65535 >> }

tmb_write_single_register(address, value) ==
    tmb_client_send_request(Req(TMB_FUNCTION_WRITE_SINGLE_REGISTER, address, value))

WriteSingleRegister == \E w \in RegisterWrites : tmb_write_single_register(w[1], w[2])

BadMbapAdus(address, txid, pdu) ==
    {<< HiByte(txid), LoByte(txid), HiByte(protocol), LoByte(protocol),
        HiByte(length), LoByte(length), address >> \o pdu :
        << protocol, length >> \in
            ({0, 1, 256} \X {Len(pdu) + 1, Len(pdu), Len(pdu) + 7, 0})
               \ {<< TMB_MODBUS_PROTOCOL_IDENTIFIER, Len(pdu) + 1 >>}}

BadMbapReplies ==
    UNION {BadMbapAdus(handle.device_address, txid_at_entry, pdu) :
              pdu \in ReplyPdus(request)}

tmb_send_bad_mbap == tmb_send_to(BadMbapReplies)

InitTcp == InitWith(TcpStarts)

NextBadMbap ==
    \/ WriteSingleRegister
    \/ ReadHoldingRegisters
    \/ tmb_send_bad_mbap
    \/ tmb_receive

SpecBadMbap == InitTcp /\ [][NextBadMbap]_vars

(* ------------------------------------------------------------------ *)
(* tmb_request_validate on its own: a request is drawn, the validator   *)
(* is applied to it and its return value is kept in result.             *)
(* ------------------------------------------------------------------ *)
ValidatorFunctions == (0..24) \cup {43, 128, 255}
ValidatorQuantities ==
    {0, 1, 2, 7, 8, 9, 15, 16, 17, 122, 123, 124, 125, 126, 127, 128, 255, 256,
     1960, 1961, 1967, 1968, 1969, 1999, 2000, 2001, 65280, 65281, 65535}
ValidatorByteCounts == {0, 1, 2, 3, 4, 16, 32, 244, 245, 246, 247, 248, 250, 254, 255}

\* the byte_count and values members exist only in the write-multiple requests
ValidatorRequests ==
    {ReqMulti(fc, 19, q, bc, << >>) :
        fc \in {TMB_FUNCTION_WRITE_MULTIPLE_COILS, TMB_FUNCTION_WRITE_MULTIPLE_REGISTERS},
        q \in ValidatorQuantities, bc \in ValidatorByteCounts}
    \cup {Req(fc, 19, q) :
            fc \in ValidatorFunctions \ {TMB_FUNCTION_WRITE_MULTIPLE_COILS,
                                         TMB_FUNCTION_WRITE_MULTIPLE_REGISTERS},
            q \in ValidatorQuantities}

InitValidate ==
    /\ handle = [is_valid |-> TRUE, mode |-> TMB_MODE_CLIENT,
                 encapsulation |-> TMB_TRANSPORT_PROTOCOL_RTU,
                 buffer_size |-> TMB_ADU_RTU_MAX_SIZE,
                 device_address |-> 0, last_transaction_identifier |-> 0,
                 callbacks |-> NoCallbacks]
    /\ request \in ValidatorRequests
    /\ pc = "validate"
    /\ buffer = << >>
    /\ response = NoResponse
    /\ result = TMB_SUCCESS
    /\ adu_size = 0
    /\ transmitted_bytes = 0
    /\ rx_base = 0
    /\ rx_want = 0
    /\ received_bytes = 0
    /\ response_size = 0
    /\ rx = << >>
    /\ link_up = TRUE
    /\ calls = 0
    /\ exchanges = 0
    /\ api = NoCall
    /\ txid_at_entry = 0
    /\ n_writes = 0
    /\ n_reads = 0
    /\ shorts = 0
    /\ wire_out = << >>
    /\ consumed = 0
    /\ reply = << >>
    /\ oob = FALSE

Validate ==
    /\ pc = "validate"
    /\ result' = tmb_request_validate(request)
    /\ pc' = "validated"
    /\ UNCHANGED << handle, buffer, request, response, adu_size, transmitted_bytes,
                    rx_base, rx_want, received_bytes, response_size, rx, link_up, calls,
                    exchanges, api, txid_at_entry, n_writes, n_reads, shorts, wire_out,
                    consumed, reply, oob >>

NextValidate == Validate

SpecValidate == InitValidate /\ [][NextValidate]_vars

(* ------------------------------------------------------------------ *)
(* A transport whose read never fails: when it moves no byte it returns *)
(* 0, as its contract allows when the bytes asked for have not arrived. *)
(* ------------------------------------------------------------------ *)
tmb_receive_zero == tmb_receive_on({0})

NextReadZero ==
    \/ ReadHoldingRegisters
    \/ tmb_send
    \/ tmb_receive_zero

SpecReadZero == Init /\ [][NextReadZero]_vars

(* ------------------------------------------------------------------ *)
(* A peer that answers with the reply of a function the client does     *)
(* not support.                                                         *)
(* ------------------------------------------------------------------ *)
tmb_send_unsupported ==
    tmb_send_to(UNION {ReplyAdus(handle.encapsulation, handle.device_address,
                                 txid_at_entry, pdu) : pdu \in UnsupportedPdus})

NextUnsupported ==
    \/ ReadHoldingRegisters
    \/ tmb_send_unsupported
    \/ tmb_receive

SpecUnsupported == Init /\ [][NextUnsupported]_vars

(* ------------------------------------------------------------------ *)
(* Handles whose scratch buffer is as long as a request ADU of          *)
(* Requests, or one byte shorter: 8, 11 and 13 bytes on RTU, 12, 15 and *)
(* 17 on TCP.                                                           *)
(* ------------------------------------------------------------------ *)
TightStarts ==
    {<< TMB_TRANSPORT_PROTOCOL_RTU, n, 0 >> : n \in {7, 8, 10, 11, 12, 13}}
      \cup {<< TMB_TRANSPORT_PROTOCOL_TCPIP, n, 0 >> : n \in {11, 12, 14, 15, 16, 17}}

SpecTightBuffer == InitWith(TightStarts) /\ [][Next]_vars

(* ------------------------------------------------------------------ *)
(* A client that sets its device address several times, and a peer      *)
(* that does not answer.                                                *)
(* ------------------------------------------------------------------ *)
SetDeviceAddressAgain ==
    \E address \in {0, 17, 18} : tmb_client_set_device_address(address)

tmb_send_unanswered == tmb_send_to({<< >>})

SpecAddress ==
    Init /\ [][SetDeviceAddressAgain \/ ReadHoldingRegisters \/ WriteSingleRegister
                 \/ tmb_send_unanswered \/ tmb_receive]_vars

(* ------------------------------------------------------------------ *)
(* A peer that answers a read of holding registers with the well-formed *)
(* normal reply of another function: ReadCoils or WriteSingleRegister.  *)
(* ------------------------------------------------------------------ *)
tmb_send_mismatched ==
    tmb_send_to(UNION {ReplyAdus(handle.encapsulation, handle.device_address,
                                 txid_at_entry, pdu) :
                          pdu \in NormalPdus(Req(TMB_FUNCTION_READ_COILS, 0, 8))
                                    \cup NormalPdus(Req(TMB_FUNCTION_WRITE_SINGLE_REGISTER,
                                                        1, 3))})

SpecMismatched ==
    Init /\ [][\/ ReadHoldingRegisters
                \/ tmb_send_mismatched
                \/ tmb_receive
                \/ wrapper_memcpy_faults]_vars

(* ------------------------------------------------------------------ *)
(* tmb_init.  The handle it is given is memory of any content; a       *)
(* pointer argument is NULL or points to an object.                   *)
(* ------------------------------------------------------------------ *)

\* the handle after memset(handle, 0, sizeof(tmb_handle_t)): false, the first
\* enumerator of each enum, 0 and NULL
ZeroedHandle ==
    [is_valid |-> FALSE, mode |-> TMB_MODE_CLIENT,
     encapsulation |-> TMB_TRANSPORT_PROTOCOL_RTU, buffer_size |-> 0,
     device_address |-> 0, last_transaction_identifier |-> 0,
     callbacks |-> NoCallbacks]

\* handles as tmb_init may find them: zeroed memory, and leftovers of an
\* earlier use with is_valid set
UninitialisedHandles ==
    { ZeroedHandle,
      [ZeroedHandle EXCEPT !.is_valid = TRUE, !.mode = TMB_MODE_SERVER,
                           !.buffer_size = 10] }

\* variant: transport->read is not looked at
tmb_init_return_read_unchecked(encapsulation, buffer_ptr, transport) ==
    IF buffer_ptr = NULL THEN TMB_E_INVALID_ARGUMENTS
    ELSE IF transport.ptr = NULL THEN TMB_E_INVALID_ARGUMENTS
    ELSE IF transport.write = NULL THEN TMB_E_INVALID_ARGUMENTS
    ELSE IF encapsulation = TMB_TRANSPORT_PROTOCOL_ASCII THEN TMB_E_NOT_IMPLEMENTED
    ELSE TMB_SUCCESS

\* the checks of tmb_init after the memset, in their order
tmb_init_return(encapsulation, buffer_ptr, transport) ==
    IF buffer_ptr = NULL THEN TMB_E_INVALID_ARGUMENTS
    ELSE IF transport.ptr = NULL THEN TMB_E_INVALID_ARGUMENTS
    ELSE IF transport.read = NULL THEN TMB_E_INVALID_ARGUMENTS
    ELSE IF transport.write = NULL THEN TMB_E_INVALID_ARGUMENTS
    ELSE IF encapsulation = TMB_TRANSPORT_PROTOCOL_ASCII THEN TMB_E_NOT_IMPLEMENTED
    ELSE TMB_SUCCESS

\* tmb_init on a non-NULL handle
tmb_init(mode, encapsulation, buffer_ptr, buffer_size, transport) ==
    /\ pc \in {"idle", "done"}
    /\ api.n < MaxApiCalls
    /\ LET ret == tmb_init_return(encapsulation, buffer_ptr, transport)
       IN  /\ api' = [op |-> "tmb_init", n |-> api.n + 1,
                      args |-> << mode, encapsulation, buffer_ptr, buffer_size,
                                  transport >>,
                      ret |-> ret, registered |-> << >>, invoked |-> << >>]
           /\ handle' = IF ret = TMB_SUCCESS
                        THEN [ZeroedHandle EXCEPT !.buffer_size = buffer_size,
                                                  !.mode = mode,
                                                  !.encapsulation = encapsulation,
                                                  !.is_valid = TRUE]
                        ELSE ZeroedHandle
    /\ UNCHANGED << buffer, pc, request, response, result, adu_size, transmitted_bytes,
                    rx_base, rx_want, received_bytes, response_size, rx, link_up, calls,
                    exchanges, txid_at_entry, n_writes, n_reads, shorts, wire_out,
                    consumed, reply, oob >>

\* the state in which nothing but the handle's memory varies: no request
\* was sent yet; before tells of the calls that made the handle what it is
InitBare(handles, before) ==
    /\ handle \in handles
    /\ buffer = << >>
    /\ pc = "idle"
    /\ request = NoRequest
    /\ response = NoResponse
    /\ result = TMB_SUCCESS
    /\ adu_size = 0
    /\ transmitted_bytes = 0
    /\ rx_base = 0
    /\ rx_want = 0
    /\ received_bytes = 0
    /\ response_size = 0
    /\ rx = << >>
    /\ link_up = TRUE
    /\ calls = 0
    /\ exchanges = 0
    /\ api = before
    /\ txid_at_entry = 0
    /\ n_writes = 0
    /\ n_reads = 0
    /\ shorts = 0
    /\ wire_out = << >>
    /\ consumed = 0
    /\ reply = << >>
    /\ oob = FALSE

\* tmb_init with every combination of a mode, an encapsulation, a NULL or
\* non-NULL buffer, a buffer size and a transport that is NULL or lacks
\* functions
TmbInit ==
    \E mode \in {TMB_MODE_CLIENT, TMB_MODE_SERVER},
       encapsulation \in {TMB_TRANSPORT_PROTOCOL_RTU, TMB_TRANSPORT_PROTOCOL_ASCII,
                          TMB_TRANSPORT_PROTOCOL_TCPIP},
       buffer_ptr \in {NULL, "buffer"},
       buffer_size \in {0, 10, TMB_ADU_RTU_MAX_SIZE},
       transport \in {[ptr |-> NULL, read |-> NULL, write |-> NULL]}
                       \cup {[ptr |-> "transport", read |-> r, write |-> w] :
                                r \in {NULL, "read"}, w \in {NULL, "write"}} :
        tmb_init(mode, encapsulation, buffer_ptr, buffer_size, transport)

SpecInit == InitBare(UninitialisedHandles, NoCall) /\ [][TmbInit]_vars

(* ------------------------------------------------------------------ *)
(* The server's callback table (handle->server.callbacks).  callbacks   *)
(* is NULL or names the tmb_callbacks_t object the caller passed.       *)
(* ------------------------------------------------------------------ *)
Slots == 1..TMB_SERVER_MAX_ADDRESSES

\* variant: a new entry is written without looking for the address first
server_set_callback_no_lookup(table, address, callbacks) ==
    LET empties == {i \in Slots : table[i].callbacks = NULL}
    IN  IF empties # {}
        THEN [error |-> TMB_SUCCESS,
              table |-> [table EXCEPT ![CHOOSE i \in empties : \A j \in empties : j <= i] =
                                         [address |-> address, callbacks |-> callbacks]]]
        ELSE [error |-> TMB_E_NO_MEMORY, table |-> table]

\* variant: with no slot free the first slot is taken over
server_set_callback_evicts(table, address, callbacks) ==
    LET matches == {i \in Slots : table[i].address = address}
        empties == {i \in Slots : table[i].callbacks = NULL}
        slot == IF matches # {} THEN CHOOSE i \in matches : \A j \in matches : i <= j
                ELSE IF empties # {} THEN CHOOSE i \in empties : \A j \in empties : j <= i
                ELSE 1
    IN  [error |-> TMB_SUCCESS,
         table |-> [table EXCEPT ![slot] = [address |-> address, callbacks |-> callbacks]]]

\* the loop over the slots and what follows it: the first slot whose address
\* matches gets the callbacks; without a match the last slot seen without
\* callbacks gets address and callbacks; without such a slot nothing is written
server_set_callback(table, address, callbacks) ==
    LET matches == {i \in Slots : table[i].address = address}
        empties == {i \in Slots : table[i].callbacks = NULL}
    IN  IF matches # {}
        THEN [error |-> TMB_SUCCESS,
              table |-> [table EXCEPT ![CHOOSE i \in matches : \A j \in matches : i <= j]
                                          .callbacks = callbacks]]
        ELSE IF empties # {}
        THEN [error |-> TMB_SUCCESS,
              table |-> [table EXCEPT ![CHOOSE i \in empties : \A j \in empties : j <= i] =
                                         [address |-> address, callbacks |-> callbacks]]]
        ELSE [error |-> TMB_E_NO_MEMORY, table |-> table]

tmb_server_set_callback(address, callbacks) ==
    /\ pc \in {"idle", "done"}
    /\ api.n < MaxApiCalls
    /\ LET out == IF ~handle.is_valid \/ address > TMB_ADDRESS_ANY
                  THEN [error |-> TMB_E_INVALID_ARGUMENTS, table |-> handle.callbacks]
                  ELSE IF handle.mode # TMB_MODE_SERVER
                  THEN [error |-> TMB_E_INVALID_MODE, table |-> handle.callbacks]
                  ELSE server_set_callback(handle.callbacks, address, callbacks)
       IN  /\ handle' = [handle EXCEPT !.callbacks = out.table]
           /\ api' = [op |-> "tmb_server_set_callback", n |-> api.n + 1,
                      args |-> << address, callbacks >>, ret |-> out.error,
                      registered |->
                        IF out.error # TMB_SUCCESS THEN api.registered
                        ELSE [a \in DOMAIN api.registered \cup {address} |->
                                 IF a = address THEN callbacks ELSE api.registered[a]],
                      invoked |-> << >>]
    /\ UNCHANGED << buffer, pc, request, response, result, adu_size, transmitted_bytes,
                    rx_base, rx_want, received_bytes, response_size, rx, link_up, calls,
                    exchanges, txid_at_entry, n_writes, n_reads, shorts, wire_out,
                    consumed, reply, oob >>

\* the table after tmb_init and tmb_server_set_callback(a, "A") for a = 1..k
RECURSIVE FilledTable(_)
FilledTable(k) ==
    IF k = 0 THEN NoCallbacks
    ELSE server_set_callback(FilledTable(k - 1), k, "A").table

\* server handles with an empty table, with one free slot and with none
ServerFills == {0, TMB_SERVER_MAX_ADDRESSES - 1, TMB_SERVER_MAX_ADDRESSES}

InitServer ==
    \E k \in ServerFills :
        InitBare({[ZeroedHandle EXCEPT !.is_valid = TRUE, !.mode = TMB_MODE_SERVER,
                                       !.buffer_size = TMB_ADU_RTU_MAX_SIZE,
                                       !.callbacks = FilledTable(k)]},
                 [NoCall EXCEPT !.registered = [a \in 1..k |-> "A"]])

SetCallback ==
    \E address \in {0, 1, TMB_SERVER_MAX_ADDRESSES + 1, TMB_ADDRESS_ANY, TMB_ADDRESS_ANY + 1},
       callbacks \in {NULL, "A", "B"} :
        tmb_server_set_callback(address, callbacks)

SpecServer == InitServer /\ [][SetCallback]_vars

(* ------------------------------------------------------------------ *)
(* The server loop.  A remote client puts request ADUs on the           *)
(* transport; api.invoked lists the callbacks a call invoked.           *)
(* ------------------------------------------------------------------ *)
\* the request ADUs a remote client frames for units 1 and 11
ArrivingRequests ==
    {LET adu == build_request_adu([ZeroedHandle EXCEPT !.is_valid = TRUE,
                                      !.buffer_size = TMB_ADU_RTU_MAX_SIZE,
                                      !.device_address = unit], req)
     IN  SubSeq(adu.buffer, 1, adu.size) :
        unit \in {1, TMB_SERVER_MAX_ADDRESSES + 1},
        req \in {Req(TMB_FUNCTION_READ_HOLDING_REGISTERS, 107, 3),
                 Req(TMB_FUNCTION_READ_HOLDING_REGISTERS, 0, 1)}}

request_arrives ==
    /\ rx = << >>
    /\ rx' \in ArrivingRequests
    /\ UNCHANGED << handle, buffer, pc, request, response, result, adu_size,
                    transmitted_bytes, rx_base, rx_want, received_bytes, response_size,
                    link_up, calls, exchanges, api, txid_at_entry, n_writes, n_reads,
                    shorts, wire_out, consumed, reply, oob >>

\* called by the application, or by the loop of tmb_server_run_forever, which
\* drops its return value and calls it again
tmb_server_run_iteration ==
    /\ pc \in {"idle", "done", "forever"}
    /\ api.n < MaxApiCalls
    /\ api' = [api EXCEPT !.op = "tmb_server_run_iteration", !.n = api.n + 1,
                          !.args = << >>, !.invoked = << >>,
                          !.ret = IF ~handle.is_valid THEN TMB_E_INVALID_ARGUMENTS
                                  ELSE TMB_E_NOT_IMPLEMENTED]
    /\ UNCHANGED << handle, buffer, pc, request, response, result, adu_size,
                    transmitted_bytes, rx_base, rx_want, received_bytes, response_size,
                    rx, link_up, calls, exchanges, txid_at_entry, n_writes, n_reads,
                    shorts, wire_out, consumed, reply, oob >>

\* the call up to its loop: it returns for a handle that is not valid and
\* enters the loop, which has no exit, otherwise (api.ret then stays the
\* return value of the last call that returned)
tmb_server_run_forever ==
    /\ pc \in {"idle", "done"}
    /\ api.n < MaxApiCalls
    /\ api' = [api EXCEPT !.op = "tmb_server_run_forever", !.n = api.n + 1,
                          !.args = << >>, !.invoked = << >>,
                          !.ret = IF ~handle.is_valid THEN TMB_E_INVALID_ARGUMENTS
                                  ELSE api.ret]
    /\ pc' = IF handle.is_valid THEN "forever" ELSE pc
    /\ UNCHANGED << handle, buffer, request, response, result, adu_size,
                    transmitted_bytes, rx_base, rx_want, received_bytes, response_size,
                    rx, link_up, calls, exchanges, txid_at_entry, n_writes, n_reads,
                    shorts, wire_out, consumed, reply, oob >>

InitServerRun == InitServer \/ InitBare({ZeroedHandle}, NoCall)

NextServerRun ==
    \/ request_arrives
    \/ tmb_server_run_iteration
    \/ tmb_server_run_forever

SpecServerRun == InitServerRun /\ [][NextServerRun]_vars

(* ------------------------------------------------------------------ *)
(* Client and server calls on handles of either mode.                   *)
(* ------------------------------------------------------------------ *)
\* variant: the wrapper checks the mode before the values pointer
wrapper_precheck_mode_first(h, function_code, values_ptr) ==
    IF ~h.is_valid THEN TMB_E_INVALID_ARGUMENTS
    ELSE IF h.mode # TMB_MODE_CLIENT THEN TMB_E_INVALID_MODE
    ELSE IF function_code \in TMB_FUNCTION_READ_COILS..TMB_FUNCTION_READ_INPUT_REGISTERS
            /\ values_ptr = NULL
         THEN TMB_E_INVALID_ARGUMENTS
    ELSE TMB_SUCCESS

\* the checks a tmb_read_* or tmb_write_* wrapper makes before it builds the
\* request; only the four read wrappers check their values pointer
wrapper_precheck(h, function_code, values_ptr) ==
    IF ~h.is_valid THEN TMB_E_INVALID_ARGUMENTS
    ELSE IF function_code \in TMB_FUNCTION_READ_COILS..TMB_FUNCTION_READ_INPUT_REGISTERS
            /\ values_ptr = NULL
         THEN TMB_E_INVALID_ARGUMENTS
    ELSE IF h.mode # TMB_MODE_CLIENT THEN TMB_E_INVALID_MODE
    ELSE TMB_SUCCESS

\* a tmb_read_* or tmb_write_* wrapper called with the request it would build
tmb_wrapper(req, values_ptr) ==
    LET ret == wrapper_precheck(handle, req.function_code, values_ptr)
    IN  IF ret = TMB_SUCCESS
        THEN tmb_client_send_request(req)
        ELSE /\ pc \in {"idle", "done"}
             /\ api.n < MaxApiCalls
             /\ api' = [api EXCEPT !.op = "tmb_wrapper", !.n = api.n + 1,
                                   !.args = << req.function_code, values_ptr >>,
                                   !.ret = ret]
             /\ UNCHANGED << handle, buffer, pc, request, response, result, adu_size,
                             transmitted_bytes, rx_base, rx_want, received_bytes,
                             response_size, rx, link_up, calls, exchanges,
                             txid_at_entry, n_writes, n_reads, shorts, wire_out,
                             consumed, reply, oob >>

ModeRequests ==
    { Req(TMB_FUNCTION_READ_COILS, 0, 8),
      Req(TMB_FUNCTION_WRITE_SINGLE_REGISTER, 1, 3) }

\* handles that tmb_init made valid, one of each mode
InitModes ==
    InitBare({[ZeroedHandle EXCEPT !.is_valid = TRUE, !.mode = mode,
                                   !.encapsulation = TMB_TRANSPORT_PROTOCOL_TCPIP,
                                   !.buffer_size = TMB_ADU_TCPIP_MAX_SIZE] :
                 mode \in {TMB_MODE_CLIENT, TMB_MODE_SERVER}},
             NoCall)

ModeInit ==
    \E mode \in {TMB_MODE_CLIENT, TMB_MODE_SERVER} :
        tmb_init(mode, TMB_TRANSPORT_PROTOCOL_TCPIP, "buffer", TMB_ADU_TCPIP_MAX_SIZE,
                 [ptr |-> "transport", read |-> "read", write |-> "write"])

ModeSendRequest == \E req \in ModeRequests : tmb_client_send_request(req)

ModeWrapper ==
    \E req \in ModeRequests, values_ptr \in {NULL, "values"} : tmb_wrapper(req, values_ptr)

ModeSetCallback ==
    \E address \in {1, TMB_ADDRESS_ANY + 1} : tmb_server_set_callback(address, "A")

\* a peer that answers every request with a normal reply
tmb_send_answered ==
    tmb_send_to(UNION {ReplyAdus(handle.encapsulation, handle.device_address,
                                 txid_at_entry, pdu) : pdu \in NormalPdus(request)})

NextModes ==
    \/ ModeInit
    \/ ModeSendRequest
    \/ ModeWrapper
    \/ SetDeviceAddress
    \/ ModeSetCallback
    \/ tmb_send_answered
    \/ tmb_receive

SpecModes == InitModes /\ [][NextModes]_vars

(* ------------------------------------------------------------------ *)
(* tmb_get_response_size on the first two bytes of a reply PDU.         *)
(* ------------------------------------------------------------------ *)
InitResponseSize ==
    \E function_code \in SupportedFunctions \cup {0, 7, 43, 128, 131},
       first_byte \in 0..255 :
        InitBare({ZeroedHandle}, [NoCall EXCEPT !.args = << function_code, first_byte >>])

GetResponseSize ==
    /\ api.op = "none"
    /\ api' = [api EXCEPT !.op = "tmb_get_response_size", !.n = api.n + 1,
                          !.ret = tmb_get_response_size(api.args[1], api.args[2])]
    /\ UNCHANGED << handle, buffer, pc, request, response, result, adu_size,
                    transmitted_bytes, rx_base, rx_want, received_bytes, response_size,
                    rx, link_up, calls, exchanges, txid_at_entry, n_writes, n_reads,
                    shorts, wire_out, consumed, reply, oob >>

SpecResponseSize == InitResponseSize /\ [][GetResponseSize]_vars

(* ------------------------------------------------------------------ *)
(* The wrappers of the multiple writes.  They store the quantity in the *)
(* uint8_t byte_count of the request.  None of their requests reaches   *)
(* the transport, so the specification has no transport step.           *)
(* ------------------------------------------------------------------ *)
tmb_write_multiple_coils(start_address, quantity, values_) ==
    tmb_wrapper(ReqMulti(TMB_FUNCTION_WRITE_MULTIPLE_COILS, start_address, quantity,
                         quantity % 256, values_), "values")

tmb_write_multiple_registers(start_address, quantity, values_) ==
    tmb_wrapper(ReqMulti(TMB_FUNCTION_WRITE_MULTIPLE_REGISTERS, start_address, quantity,
                         quantity % 256, values_), "values")

WriteMultiple ==
    \/ \E quantity \in (0..64) \cup {255, 256, 292, 585, 1968, 1969} :
          tmb_write_multiple_coils(19, quantity, [i \in 1..((quantity + 7) \div 8) |-> 205])
    \/ \E quantity \in 0..124 :
          tmb_write_multiple_registers(1, quantity, [i \in 1..quantity |-> 258])

SpecWriteMultiple == Init /\ [][WriteMultiple]_vars
(* ------------------------------------------------------------------ *)
(* Vocabulary of the claims                                             *)
(* ------------------------------------------------------------------ *)
InCall == pc \in {"send", "recv_head", "recv_body"}
IsRtu == handle.encapsulation = TMB_TRANSPORT_PROTOCOL_RTU
IsTcp == handle.encapsulation = TMB_TRANSPORT_PROTOCOL_TCPIP

\* number of bytes in front of the PDU, and index (from 1) of the PDU's bytes
ReplyOffset == Prefix(handle.encapsulation)
ReplyFunction == reply[ReplyOffset + 1]
ReplySecond == reply[ReplyOffset + 2]

ReplyIsNormal == reply # << >> /\ ReplyFunction \in SupportedFunctions
ReplyIsException == reply # << >> /\ ReplyFunction = request.function_code + 128

\* the head of the reply (prefix and two look-ahead bytes) was received
HeadReceived == consumed >= ReplyOffset + TMB_RESPONSE_LOOKAHEAD_BYTES

\* the two trailer bytes of an RTU reply are the CRC-16/Modbus of the bytes in
\* front of them, low byte first
ReplyCrcOk ==
    LET n == Len(reply)
        body == SubSeq(reply, 1, n - 2)
        crc == IF body \in DOMAIN PeerCrc THEN PeerCrc[body] ELSE CrcOf(body)
    IN  reply[n - 1] = LoByte(crc) /\ reply[n] = HiByte(crc)

(* ------------------------------------------------------------------ *)
(* C1                                                                   *)
(* ------------------------------------------------------------------ *)
\* C1: when tmb_request_validate rejects the request, the call on a valid
\* client handle returns the validator's error, has called neither
\* transport.write nor transport.read, and has left the transaction identifier
\* as it was.
C1_RejectedBeforeIO ==
    (pc = "done" /\ handle.is_valid /\ handle.mode = TMB_MODE_CLIENT
       /\ tmb_request_validate(request) # TMB_SUCCESS)
    => /\ result = tmb_request_validate(request)
       /\ n_writes = 0
       /\ n_reads = 0
       /\ handle.last_transaction_identifier = txid_at_entry

\* a ReadHoldingRegisters request with quantity 126 was rejected in the second
\* exchange, after a first request had taken transaction identifier 0
C1_Witness ==
    /\ pc = "done"
    /\ request = Req(TMB_FUNCTION_READ_HOLDING_REGISTERS, 107, 126)
    /\ result = TMB_E_ILLEGAL_DATA_VALUE
    /\ exchanges = 2
    /\ handle.last_transaction_identifier = 1
    /\ n_writes = 0

(* ------------------------------------------------------------------ *)
(* C2                                                                   *)
(* ------------------------------------------------------------------ *)
\* C2: on an RTU handle, for a normal reply with a supported function code that
\* fits the scratch buffer, the call returns TMB_SUCCESS only if the trailer is
\* the CRC-16 of address + PDU, low byte first; when the whole reply (address,
\* the PDU of the size its function code calls for, trailer) was received and
\* the trailer differs, it returns TMB_E_INVALID_CRC and the response is left
\* unparsed.
C2_RtuCrcChecked ==
    (pc = "done" /\ IsRtu /\ ReplyIsNormal /\ Len(reply) <= handle.buffer_size)
    => /\ (result = TMB_SUCCESS => ReplyCrcOk)
       /\ (/\ consumed = Len(reply)
           /\ Len(reply) = ReplyOffset + tmb_get_response_size(ReplyFunction, ReplySecond)
                                       + TMB_ADU_CRC_LENGTH
           /\ ~ReplyCrcOk)
            => (result = TMB_E_INVALID_CRC /\ response = NoResponse)

\* a whole normal RTU reply with a wrong trailer was received and refused
C2_Witness ==
    /\ pc = "done"
    /\ IsRtu
    /\ ReplyIsNormal
    /\ consumed = Len(reply)
    /\ ~ReplyCrcOk
    /\ result = TMB_E_INVALID_CRC

(* ------------------------------------------------------------------ *)
(* C3                                                                   *)
(* ------------------------------------------------------------------ *)
\* C3: when the reply's function code is the request's ORed with 0x80 and its
\* exception code is c, the call returns TMB_FAILURE for c = 0 and c itself
\* otherwise, and has read nothing after the two look-ahead bytes.
C3_ExceptionReply ==
    (pc = "done" /\ ReplyIsException /\ HeadReceived)
    => /\ result = (IF ReplySecond = 0 THEN TMB_FAILURE ELSE ReplySecond)
       /\ consumed = ReplyOffset + TMB_RESPONSE_LOOKAHEAD_BYTES

\* an exception reply with code 2 (illegal data address) was returned as 2
C3_Witness ==
    /\ pc = "done"
    /\ ReplyIsException
    /\ ReplySecond = 2
    /\ result = 2
    /\ consumed = ReplyOffset + TMB_RESPONSE_LOOKAHEAD_BYTES

(* ------------------------------------------------------------------ *)
(* C4                                                                   *)
(* ------------------------------------------------------------------ *)
\* C4: in an exchange on a handle whose buffer has the maximum ADU size, in
\* which the peer sent one complete reply ADU (normal with a supported function
\* code, or exception) that the transport delivered without error, the call has
\* consumed exactly the bytes of that ADU, so that nothing of it is left for
\* the next exchange to read.
C4_ConsumesWholeReply ==
    (pc = "done" /\ link_up /\ (ReplyIsNormal \/ ReplyIsException)
       /\ handle.buffer_size = (IF IsRtu THEN TMB_ADU_RTU_MAX_SIZE
                                         ELSE TMB_ADU_TCPIP_MAX_SIZE)
       /\ Len(reply) <= handle.buffer_size)
    => (consumed = Len(reply) /\ rx = << >>)

\* an RTU exception reply of five bytes: the call returned after three of them
\* and the two CRC bytes are still waiting in the transport
C4_Witness ==
    /\ pc = "done"
    /\ IsRtu
    /\ link_up
    /\ ReplyIsException
    /\ Len(reply) = 5
    /\ consumed = 3
    /\ rx = SubSeq(reply, 4, 5)

(* ------------------------------------------------------------------ *)
(* C5                                                                   *)
(* ------------------------------------------------------------------ *)
\* the byte count of the well-formed reply to a read request
ExpectedByteCount(req) ==
    IF req.function_code \in {TMB_FUNCTION_READ_COILS, TMB_FUNCTION_READ_DISCRETE_INPUTS}
    THEN (req.quantity + 7) \div 8
    ELSE 2 * req.quantity

\* the reply is the well-formed normal reply to the request
ReplyAnswersRequest ==
    /\ reply # << >>
    /\ ReplyFunction = request.function_code
    /\ IF request.function_code \in ReadFunctions
       THEN /\ ReplySecond = ExpectedByteCount(request)
            /\ ReplySecond \in 1..250
            /\ Len(reply) = ReplyOffset + 2 + ReplySecond + Trailer(handle.encapsulation)
       ELSE Len(reply) = ReplyOffset + 5 + Trailer(handle.encapsulation)

\* the response struct holds what the reply PDU carries
ResponseCarriesReply ==
    LET pdu == SubSeq(reply, ReplyOffset + 1, Len(reply) - Trailer(handle.encapsulation))
    IN  /\ response.function_code = pdu[1]
        /\ CASE pdu[1] \in {TMB_FUNCTION_READ_COILS, TMB_FUNCTION_READ_DISCRETE_INPUTS} ->
                  /\ response.byte_count = pdu[2]
                  /\ response.values = SubSeq(pdu, 3, 2 + pdu[2])
             [] pdu[1] \in {TMB_FUNCTION_READ_HOLDING_REGISTERS,
                            TMB_FUNCTION_READ_INPUT_REGISTERS} ->
                  /\ response.byte_count = pdu[2]
                  /\ response.values =
                       [k \in 1..(pdu[2] \div 2) |-> pdu[2 * k + 1] * 256 + pdu[2 * k + 2]]
             [] OTHER ->
                  /\ response.start_address = pdu[2] * 256 + pdu[3]
                  /\ response.quantity = pdu[4] * 256 + pdu[5]

\* C5: on a TCP handle with a buffer of TMB_ADU_TCPIP_MAX_SIZE bytes, when the
\* well-formed normal reply to a valid request was delivered without transport
\* error, the call returns TMB_SUCCESS and the response carries the reply's
\* function code, byte count and payload (or the echoed fields of a write).
C5_TcpNormalReplySucceeds ==
    (pc = "done" /\ IsTcp /\ handle.buffer_size = TMB_ADU_TCPIP_MAX_SIZE /\ link_up
       /\ ReplyAnswersRequest)
    => (result = TMB_SUCCESS /\ ResponseCarriesReply)

\* ReadHoldingRegisters(107, 3) on TCP, answered with byte count 6 and three
\* registers: the call returned TMB_E_INVALID_ARGUMENTS
C5_Witness ==
    /\ pc = "done"
    /\ IsTcp
    /\ link_up
    /\ request = Req(TMB_FUNCTION_READ_HOLDING_REGISTERS, 107, 3)
    /\ ReplyAnswersRequest
    /\ consumed = Len(reply)
    /\ result = TMB_E_INVALID_ARGUMENTS

(* ------------------------------------------------------------------ *)
(* C6                                                                   *)
(* ------------------------------------------------------------------ *)
\* C6: while receiving a reply the call stores no byte at an index >=
\* buffer_size; when prefix + PDU + trailer of a normal reply exceeds
\* buffer_size it returns TMB_E_NO_MEMORY having read only the head.
C6_NoStoreOutsideBuffer ==
    /\ (n_reads > 0 => ~oob)
    /\ (pc = "done" /\ link_up /\ ReplyIsNormal /\ Len(reply) > handle.buffer_size)
         => (result = TMB_E_NO_MEMORY
             /\ consumed = ReplyOffset + TMB_RESPONSE_LOOKAHEAD_BYTES)

\* a reply longer than the buffer was received whole, past the end of the buffer
C6_Witness ==
    /\ pc = "done"
    /\ link_up
    /\ ReplyIsNormal
    /\ Len(reply) > handle.buffer_size
    /\ consumed = Len(reply)
    /\ oob

(* ------------------------------------------------------------------ *)
(* C7                                                                   *)
(* ------------------------------------------------------------------ *)
\* the RTU frame of a request with two 16-bit fields: address, function code,
\* the fields high byte first, CRC-16/Modbus low byte first
ExpectedRtuRequest(a, req) ==
    LET body == << a, req.function_code,
                   HiByte(req.start_address), LoByte(req.start_address),
                   HiByte(req.quantity), LoByte(req.quantity) >>
        crc == CrcOf(body)
    IN  body \o << LoByte(crc), HiByte(crc) >>

\* C7: on an RTU handle with device address a, a valid request with function
\* code 1 to 6 is written to the transport as exactly the 8 bytes a, function
\* code, first field, second field (high byte first), CRC-16/Modbus of those 6
\* bytes (low byte first); for a = 0x11 and ReadHoldingRegisters(0x006B, 3) the
\* bytes are 11 03 00 6B 00 03 76 87.
C7_RtuRequestBytes ==
    (InCall /\ IsRtu /\ request.function_code \in 1..6)
    => LET e == ExpectedRtuRequest(handle.device_address, request)
       IN  /\ pc = "send" => (Len(wire_out) < 8 /\ wire_out = SubSeq(e, 1, Len(wire_out)))
           /\ pc # "send" => wire_out = e
           /\ (pc # "send" /\ handle.device_address = 17
                 /\ request = Req(TMB_FUNCTION_READ_HOLDING_REGISTERS, 107, 3))
                => wire_out = << 17, 3, 0, 107, 0, 3, 118, 135 >>

\* the frame 11 03 00 6B 00 03 76 87 has been written
C7_Witness ==
    /\ pc = "recv_head"
    /\ IsRtu
    /\ request = Req(TMB_FUNCTION_READ_HOLDING_REGISTERS, 107, 3)
    /\ wire_out = << 17, 3, 0, 107, 0, 3, 118, 135 >>

(* ------------------------------------------------------------------ *)
(* C8                                                                   *)
(* ------------------------------------------------------------------ *)
\* C8: on a TCP handle the request ADU handed to tmb_send has protocol
\* identifier 0 and an MBAP length field (bytes 4 and 5, big-endian) equal to
\* the number of bytes after the length field, 1 + PDU length.
C8_MbapLength ==
    (pc = "send" /\ IsTcp)
    => /\ BufAt(buffer, 2) = 0
       /\ BufAt(buffer, 3) = 0
       /\ BufAt(buffer, 4) * 256 + BufAt(buffer, 5) = adu_size - 6

\* a 12-byte read request whose length field says 12
C8_Witness ==
    /\ pc = "send"
    /\ IsTcp
    /\ request = Req(TMB_FUNCTION_READ_COILS, 0, 8)
    /\ adu_size = 12
    /\ SubSeq(buffer, 3, 6) = << 0, 0, 0, 12 >>

(* ------------------------------------------------------------------ *)
(* C9                                                                   *)
(* ------------------------------------------------------------------ *)
\* C9: on a TCP handle the n-th call that passes validation since tmb_init
\* stamps n mod 65536, high byte first, into bytes 0 and 1 of its ADU; every
\* such call, whatever it returns, advances the counter by one, with 65535
\* followed by 0.
C9_TransactionIdentifier ==
    IsTcp
    => /\ handle.last_transaction_identifier = calls % 65536
       /\ pc = "send"
            => /\ BufAt(buffer, 0) = HiByte((calls - 1) % 65536)
               /\ BufAt(buffer, 1) = LoByte((calls - 1) % 65536)
       /\ Len(wire_out) >= 1 => wire_out[1] = HiByte((calls - 1) % 65536)
       /\ Len(wire_out) >= 2 => wire_out[2] = LoByte((calls - 1) % 65536)
       /\ (pc = "done" /\ precheck(handle, request) = TMB_SUCCESS)
            => handle.last_transaction_identifier = (txid_at_entry + 1) % 65536

\* call number 65535 failed in the transport; call number 65536 is stamped 0
C9_Witness ==
    /\ IsTcp
    /\ pc = "send"
    /\ ~link_up
    /\ calls = 65537
    /\ BufAt(buffer, 0) = 0
    /\ BufAt(buffer, 1) = 0
    /\ handle.last_transaction_identifier = 1

(* ------------------------------------------------------------------ *)
(* C10                                                                  *)
(* ------------------------------------------------------------------ *)
\* what every step of the program satisfies for C10
C10_Step ==
    /\ pc = "send"
         => /\ n_reads = 0
            /\ transmitted_bytes < adu_size
            /\ wire_out = SubSeq(buffer, 1, transmitted_bytes)
            /\ pc' \in {"send", "done", "recv_head"}
    /\ (pc = "send" /\ pc' = "send")
         => /\ transmitted_bytes' > transmitted_bytes
            /\ wire_out' = SubSeq(buffer, 1, transmitted_bytes')
    /\ (pc = "send" /\ pc' = "done")
         => (result' = TMB_E_TRANSPORT /\ n_reads' = 0 /\ wire_out' = wire_out)
    /\ (pc = "send" /\ pc' = "recv_head")
         => (wire_out' = SubSeq(buffer, 1, adu_size) /\ n_reads' = 0)
    /\ n_reads' > n_reads
         => (pc \in {"recv_head", "recv_body"} /\ Len(wire_out) = Len(wire_out'))

\* C10: the request ADU goes to transport.write in order and exactly once:
\* after a short write the bytes accepted so far are the leading bytes of the
\* ADU and the next write starts behind them; transport.read is not called
\* before the whole ADU was accepted; a write returning <= 0 ends the call with
\* TMB_E_TRANSPORT and without a read.
C10_SendInOrderOnce == [][C10_Step]_vars

\* a short write, then a failing write: TMB_E_TRANSPORT and no read
C10_Witness ==
    /\ pc = "done"
    /\ result = TMB_E_TRANSPORT
    /\ n_writes = 2
    /\ n_reads = 0
    /\ Len(wire_out) > 0

(* ------------------------------------------------------------------ *)
(* C11: short reads.                                                    *)
(* ------------------------------------------------------------------ *)
\* what one transport.read call of a tmb_receive does, seen from outside
C11_Step ==
    (pc \in {"recv_head", "recv_body"} /\ n_reads' = n_reads + 1) =>
        LET missing == rx_want - received_bytes
            at == rx_base + received_bytes
            nb == consumed' - consumed
        IN  /\ 0 <= nb /\ nb <= missing
            /\ nb = 0 => (pc' = "done" /\ result' = TMB_E_TRANSPORT)
            /\ nb > 0 =>
                 /\ \/ /\ \A i \in 1..nb : buffer'[at + i] = rx[i]
                       /\ \A j \in 1..Min(at, Len(buffer)) : buffer'[j] = buffer[j]
                    \/ /\ pc' = "done" /\ result' = TMB_SUCCESS
                       /\ response'.function_code
                            \in {TMB_FUNCTION_READ_HOLDING_REGISTERS,
                                 TMB_FUNCTION_READ_INPUT_REGISTERS}
                       /\ buffer' = tmb_get_buffer_uint16(
                                        BufCopy(buffer, at, SubSeq(rx, 1, nb)),
                                        ReplyOffset + 2, response'.byte_count).buffer
                 /\ rx' = SubSeq(rx, nb + 1, Len(rx))
            /\ (0 < nb /\ nb < missing) =>
                 /\ pc' = pc
                 /\ received_bytes' = received_bytes + nb
                 /\ rx_want' = rx_want /\ rx_base' = rx_base
            /\ (0 < nb /\ nb = missing) =>
                 /\ pc' # pc
                 /\ pc' = "done" => result' # TMB_E_TRANSPORT

\* C11: when transport.read returns fewer bytes than asked, the client keeps
\* reading: no read delivers more than what is still missing, the bytes
\* land one after the other in arrival order behind those already stored,
\* a partial read leaves the tmb_receive in progress and the read that
\* brings the last missing byte ends it successfully; a read that returns
\* zero or a negative value ends the request with TMB_E_TRANSPORT.  (When the
\* last read completes a register reply that is then parsed, the buffer
\* holds the delivered bytes with the registers converted in place.)
C11_ShortReadsAccumulate == [][C11_Step]_vars

\* a request that succeeded although one of its reads came back short
C11_Witness ==
    /\ pc = "done" /\ result = TMB_SUCCESS
    /\ shorts >= 1 /\ n_writes = 1 /\ n_reads >= 3

(* ------------------------------------------------------------------ *)
(* C12: register decoding through the wrappers.                         *)
(* ------------------------------------------------------------------ *)
ReplyPayload == SubSeq(reply, ReplyOffset + 3, ReplyOffset + 2 + ReplySecond)

\* C12: on an RTU handle, when tmb_read_holding_registers or
\* tmb_read_input_registers has received a whole reply of its function code
\* that fits the scratch buffer, declares an even byte count 2k (k >= 1) and
\* carries a valid CRC, it returns TMB_SUCCESS and the caller's values array
\* holds values[i] = 256 * payload[2i] + payload[2i+1] for every i < k; the
\* payload 02 2B 00 00 00 64 gives 0x022B, 0x0000, 0x0064.  (values is the
\* array's bytes; element i is bytes 2i + 1 and 2i + 2, low byte first.)
C12_RegistersDecoded ==
    (pc = "done" /\ IsRtu /\ reply # << >>
       /\ request.function_code \in {TMB_FUNCTION_READ_HOLDING_REGISTERS,
                                     TMB_FUNCTION_READ_INPUT_REGISTERS}
       /\ ReplyFunction = request.function_code
       /\ ReplySecond % 2 = 0 /\ ReplySecond >= 2
       /\ Len(reply) <= handle.buffer_size
       /\ consumed = Len(reply)
       /\ ReplyCrcOk)
    => /\ wrapper_return = TMB_SUCCESS
       /\ Len(values) = ReplySecond
       /\ \A i \in 0..(ReplySecond \div 2 - 1) :
             values[2 * i + 1] + 256 * values[2 * i + 2]
               = 256 * ReplyPayload[2 * i + 1] + ReplyPayload[2 * i + 2]
       /\ ReplyPayload = << 2, 43, 0, 0, 0, 100 >> => values = << 43, 2, 0, 0, 100, 0 >>

\* tmb_read_input_registers returned the three registers of the example
C12_Witness ==
    /\ pc = "done" /\ IsRtu /\ reply # << >>
    /\ request = Req(TMB_FUNCTION_READ_INPUT_REGISTERS, 8, 3)
    /\ ReplyFunction = TMB_FUNCTION_READ_INPUT_REGISTERS /\ ReplySecond = 6
    /\ ReplyPayload = << 2, 43, 0, 0, 0, 100 >>
    /\ wrapper_return = TMB_SUCCESS
    /\ values = << 43, 2, 0, 0, 100, 0 >>

(* ------------------------------------------------------------------ *)
(* C13: CRC of an RTU exception reply.                                  *)
(* ------------------------------------------------------------------ *)
\* C13: on an RTU handle the CRC of an exception reply is validated: once the
\* head of an exception reply was received the call returns the exception
\* code when the trailer is the CRC of the bytes in front of it, and
\* TMB_E_INVALID_CRC when it is not.
C13_ExceptionCrcChecked ==
    (pc = "done" /\ IsRtu /\ ReplyIsException /\ HeadReceived /\ ReplySecond # 0)
    => result = (IF ReplyCrcOk THEN ReplySecond ELSE TMB_E_INVALID_CRC)

\* an exception reply with code 2 and a wrong CRC trailer was returned as 2,
\* its trailer unread
C13_Witness ==
    /\ pc = "done" /\ IsRtu /\ ReplyIsException
    /\ ReplySecond = 2
    /\ ~ReplyCrcOk
    /\ result = 2
    /\ consumed = ReplyOffset + TMB_RESPONSE_LOOKAHEAD_BYTES

(* ------------------------------------------------------------------ *)
(* C14: replies whose function code has the high bit set.               *)
(* ------------------------------------------------------------------ *)
\* C14: a reply whose first PDU byte f is 0x80 or above is an exception
\* reply: tmb_get_response_size returns 2 for it, and once its head was
\* received the call has ended on the exception path, with the second PDU
\* byte as its result (TMB_FAILURE for 0) and nothing read after the
\* look-ahead bytes.
C14_HighBitIsException ==
    (pc \in {"recv_body", "done", "crashed"} /\ reply # << >>
       /\ ReplyFunction >= 128 /\ HeadReceived)
    => /\ tmb_get_response_size(ReplyFunction, ReplySecond) = 2
       /\ pc = "done"
       /\ result = (IF ReplySecond = 0 THEN TMB_FAILURE ELSE ReplySecond)
       /\ consumed = ReplyOffset + TMB_RESPONSE_LOOKAHEAD_BYTES

\* a reply with function code 0x80 and second byte 2 was taken for a normal
\* response: a third byte was read and the call did not return 2
C14_Witness ==
    /\ pc = "done" /\ reply # << >>
    /\ ReplyFunction = 128 /\ ReplySecond = 2
    /\ tmb_get_response_size(128, 2) # 2
    /\ consumed > ReplyOffset + TMB_RESPONSE_LOOKAHEAD_BYTES
    /\ result # 2

(* ------------------------------------------------------------------ *)
(* C15: MBAP header of a TCP reply.                                     *)
(* ------------------------------------------------------------------ *)
ReplyProtocol == reply[3] * 256 + reply[4]
ReplyLength == reply[5] * 256 + reply[6]

\* C15: on a TCP handle the call does not return TMB_SUCCESS for a reply
\* whose MBAP protocol identifier is not 0 or whose MBAP length field is not
\* the PDU length + 1.
C15_MbapChecked ==
    (pc = "done" /\ IsTcp /\ reply # << >>
       /\ (ReplyProtocol # TMB_MODBUS_PROTOCOL_IDENTIFIER
           \/ ReplyLength # Len(reply) - ReplyOffset + 1))
    => result # TMB_SUCCESS

\* the echo of a WriteSingleRegister came with protocol identifier 1 and
\* length field 0 and was accepted
C15_Witness ==
    /\ pc = "done" /\ IsTcp /\ reply # << >>
    /\ request.function_code = TMB_FUNCTION_WRITE_SINGLE_REGISTER
    /\ ReplyProtocol = 1
    /\ ReplyLength = 0
    /\ consumed = Len(reply)
    /\ result = TMB_SUCCESS
    /\ response.start_address = request.start_address

(* ------------------------------------------------------------------ *)
(* C16: results in the range of the Modbus exception codes.             *)
(* ------------------------------------------------------------------ *)
\* C16: when the call returns a value e with 1 <= e <= 255, the peer sent in
\* this exchange an exception reply whose exception code is e, and the call
\* received its head; every failure found locally (validation, framing,
\* checksum, capacity, transport) is returned as a value outside 1..255.
C16_ExceptionCodesFromPeer ==
    (pc = "done" /\ result \in 1..255)
    => /\ reply # << >>
       /\ HeadReceived
       /\ ReplyFunction >= 128
       /\ ReplySecond = result

\* the validator's rejection of quantity 0 was returned as 3, the value of
\* the exception code "illegal data value", and no request was sent
C16_Witness ==
    /\ pc = "done"
    /\ request = Req(TMB_FUNCTION_READ_HOLDING_REGISTERS, 107, 0)
    /\ result = 3
    /\ n_writes = 0 /\ n_reads = 0
    /\ reply = << >>

(* ------------------------------------------------------------------ *)
(* C17..C20: the request validator.                                     *)
(* ------------------------------------------------------------------ *)
Validated == pc = "validated"
ValidatorAccepts == result = TMB_SUCCESS
ValidatorRejectsValue == result = TMB_E_ILLEGAL_DATA_VALUE

\* C17: tmb_request_validate returns TMB_SUCCESS for ReadCoils and
\* ReadDiscreteInputs exactly when 1 <= quantity <= 2000, for
\* ReadHoldingRegisters and ReadInputRegisters exactly when
\* 1 <= quantity <= 125, and TMB_E_ILLEGAL_DATA_VALUE otherwise.
C17_ReadQuantityLimits ==
    Validated =>
      /\ request.function_code \in {1, 2} =>
           IF 1 <= request.quantity /\ request.quantity <= 2000
           THEN ValidatorAccepts ELSE ValidatorRejectsValue
      /\ request.function_code \in {3, 4} =>
           IF 1 <= request.quantity /\ request.quantity <= 125
           THEN ValidatorAccepts ELSE ValidatorRejectsValue

\* ReadInputRegisters with quantity 126 was rejected
C17_Witness ==
    /\ Validated
    /\ request.function_code = 4 /\ request.quantity = 126
    /\ ValidatorRejectsValue

\* C18: tmb_request_validate accepts WriteSingleCoil exactly when the value is
\* 0x0000 or 0xFF00 and rejects every other value (0x0001, 0xFFFF) with
\* TMB_E_ILLEGAL_DATA_VALUE; it accepts WriteSingleRegister with every 16-bit
\* value.
C18_SingleWriteValues ==
    Validated =>
      /\ request.function_code = 5 =>
           IF request.quantity \in {0, 65280}
           THEN ValidatorAccepts ELSE ValidatorRejectsValue
      /\ request.function_code = 6 => ValidatorAccepts

\* WriteSingleCoil with value 0xFFFF was rejected
C18_Witness ==
    /\ Validated
    /\ request.function_code = 5 /\ request.quantity = 65535
    /\ ValidatorRejectsValue

\* C19: tmb_request_validate accepts WriteMultipleCoils exactly when
\* 1 <= quantity <= 1968 and byte_count = ceiling(quantity / 8), and returns
\* TMB_E_ILLEGAL_DATA_VALUE otherwise.
C19_WriteMultipleCoils ==
    (Validated /\ request.function_code = 15) =>
        IF 1 <= request.quantity /\ request.quantity <= 1968
           /\ request.byte_count = (request.quantity + 7) \div 8
        THEN ValidatorAccepts ELSE ValidatorRejectsValue

\* 8 coils in 1 byte were rejected
C19_Witness ==
    /\ Validated
    /\ request.function_code = 15 /\ request.quantity = 8 /\ request.byte_count = 1
    /\ ValidatorRejectsValue

\* C20: tmb_request_validate accepts WriteMultipleRegisters exactly when
\* 1 <= quantity <= 123 and byte_count = 2 * quantity, and returns
\* TMB_E_ILLEGAL_DATA_VALUE otherwise, in particular for quantity >= 124.
C20_WriteMultipleRegisters ==
    (Validated /\ request.function_code = 16) =>
        IF 1 <= request.quantity /\ request.quantity <= 123
           /\ request.byte_count = 2 * request.quantity
        THEN ValidatorAccepts ELSE ValidatorRejectsValue

\* 124 registers in 248 bytes were accepted
C20_Witness ==
    /\ Validated
    /\ request.function_code = 16 /\ request.quantity = 124 /\ request.byte_count = 248
    /\ ValidatorAccepts

(* ------------------------------------------------------------------ *)
(* C21: function codes the validator does not know.                     *)
(* ------------------------------------------------------------------ *)
\* C21: tmb_request_validate returns TMB_E_ILLEGAL_FUNCTION for every function
\* code other than 1, 2, 3, 4, 5, 6, 15 and 16 (0, the other standard codes
\* and the codes from 0x80 up included), whatever the other fields hold.
C21_UnknownFunctionRejected ==
    (Validated /\ request.function_code \notin {1, 2, 3, 4, 5, 6, 15, 16})
    => result = TMB_E_ILLEGAL_FUNCTION

\* function code 23 (read/write multiple registers) with a quantity that
\* would be fine for a read was rejected as an illegal function
C21_Witness ==
    /\ Validated
    /\ request.function_code = 23 /\ request.quantity = 2
    /\ result = TMB_E_ILLEGAL_FUNCTION

(* ------------------------------------------------------------------ *)
(* C22: tmb_init.                                                       *)
(* ------------------------------------------------------------------ *)
AfterInit == api.op = "tmb_init"
InitEncapsulation == api.args[2]
InitPointersOk ==
    /\ api.args[3] # NULL
    /\ api.args[5].ptr # NULL
    /\ api.args[5].read # NULL
    /\ api.args[5].write # NULL

\* C22: tmb_init on a non-NULL handle returns TMB_SUCCESS and leaves is_valid
\* true when buffer, transport, transport.read and transport.write are all
\* non-NULL and the encapsulation is RTU or TCP; it returns
\* TMB_E_INVALID_ARGUMENTS and leaves is_valid false when one of them is NULL;
\* in every case is_valid is true after the call iff it returned TMB_SUCCESS.
C22_InitValidity ==
    AfterInit =>
      /\ (InitPointersOk /\ InitEncapsulation \in {TMB_TRANSPORT_PROTOCOL_RTU,
                                                   TMB_TRANSPORT_PROTOCOL_TCPIP})
           => (api.ret = TMB_SUCCESS /\ handle.is_valid)
      /\ ~InitPointersOk => (api.ret = TMB_E_INVALID_ARGUMENTS /\ ~handle.is_valid)
      /\ handle.is_valid <=> api.ret = TMB_SUCCESS

\* the second tmb_init on a handle was given a transport without a read
\* function: the call failed and the handle is not valid
C22_Witness ==
    /\ AfterInit
    /\ api.n = 2
    /\ api.args[5].ptr # NULL /\ api.args[5].read = NULL
    /\ api.ret = TMB_E_INVALID_ARGUMENTS
    /\ ~handle.is_valid

(* ------------------------------------------------------------------ *)
(* C24, C25: the server's callback table.                               *)
(* ------------------------------------------------------------------ *)
Occupied(i) == handle.callbacks[i].callbacks # NULL
SlotsOf(a) == {i \in Slots : Occupied(i) /\ handle.callbacks[i].address = a}
TableFull == \A i \in Slots : Occupied(i)

\* C24: on a server handle no two slots with callbacks have the same
\* listening address; for every address the slot with callbacks for it holds
\* the callbacks of the last tmb_server_set_callback that succeeded for it,
\* and there is no such slot when that call passed NULL or when no call
\* succeeded for the address.
C24_TableHoldsLastCallbacks ==
    (handle.is_valid /\ handle.mode = TMB_MODE_SERVER) =>
      /\ \A i, j \in Slots :
            (i # j /\ Occupied(i) /\ Occupied(j))
            => handle.callbacks[i].address # handle.callbacks[j].address
      /\ \A a \in 0..TMB_ADDRESS_ANY :
            IF a \in DOMAIN api.registered /\ api.registered[a] # NULL
            THEN /\ SlotsOf(a) # {}
                 /\ \A i \in SlotsOf(a) : handle.callbacks[i].callbacks = api.registered[a]
            ELSE SlotsOf(a) = {}

\* address 1 was given other callbacks and the last of three calls cleared
\* address 0
C24_Witness ==
    /\ handle.mode = TMB_MODE_SERVER
    /\ api.n = 3
    /\ api.op = "tmb_server_set_callback"
    /\ api.args = << 0, NULL >> /\ api.ret = TMB_SUCCESS
    /\ 1 \in DOMAIN api.registered
    /\ api.registered[1] = "B"
    /\ \E i \in Slots : handle.callbacks[i] = [address |-> 1, callbacks |-> "B"]

\* one tmb_server_set_callback call with a valid address on a valid server
\* handle
C25_Step ==
    (handle.is_valid /\ handle.mode = TMB_MODE_SERVER
       /\ api'.op = "tmb_server_set_callback" /\ api'.n = api.n + 1
       /\ api'.args[1] <= TMB_ADDRESS_ANY)
    => LET address == api'.args[1]
           callbacks == api'.args[2]
           known == \E i \in Slots : handle.callbacks[i].address = address
       IN  /\ ~TableFull => api'.ret = TMB_SUCCESS
           /\ (TableFull /\ ~known) =>
                 (api'.ret = TMB_E_NO_MEMORY /\ handle'.callbacks = handle.callbacks)
           /\ (TableFull /\ known) =>
                 /\ api'.ret = TMB_SUCCESS
                 /\ \E i \in Slots :
                      /\ handle.callbacks[i].address = address
                      /\ handle'.callbacks =
                           [handle.callbacks EXCEPT ![i].callbacks = callbacks]

\* C25: tmb_server_set_callback succeeds as long as a slot is without
\* callbacks, so for up to TMB_SERVER_MAX_ADDRESSES distinct addresses; when
\* all slots hold callbacks, a call for an address that is not in the table
\* returns TMB_E_NO_MEMORY and leaves every slot as it was, and a call for an
\* address that is in the table succeeds and replaces its callbacks.
C25_TableCapacity == [][C25_Step]_vars

\* with ten addresses registered an eleventh was refused
C25_Witness ==
    /\ handle.mode = TMB_MODE_SERVER
    /\ TableFull
    /\ api.op = "tmb_server_set_callback"
    /\ api.args = << TMB_SERVER_MAX_ADDRESSES + 1, "B" >>
    /\ api.ret = TMB_E_NO_MEMORY
    /\ Cardinality({handle.callbacks[i].address : i \in Slots}) = TMB_SERVER_MAX_ADDRESSES

(* ------------------------------------------------------------------ *)
(* C23: calls of the other mode                                         *)
(* ------------------------------------------------------------------ *)
\* this step is a call of tmb_client_send_request, made directly or by a
\* wrapper that passed its own checks
RequestCall == exchanges' = exchanges + 1

\* this step is a call of op that returned before any request was built
ApiCall(op) == api'.n = api.n + 1 /\ api'.op = op

\* no transport call is made in this step
NoTransportIO ==
    /\ n_writes' \in {0, n_writes} /\ n_reads' \in {0, n_reads}
    /\ wire_out' \in {<< >>, wire_out} /\ consumed' \in {0, consumed}
    /\ UNCHANGED rx
    /\ pc' \in {"idle", "done"}

\* what C23 says of one step, where mismatch(args_invalid) is the error a call
\* of the other mode returns
C23_StepWith(mismatch(_)) ==
    /\ (handle.is_valid /\ handle.mode = TMB_MODE_SERVER /\ RequestCall) =>
          /\ result' = TMB_E_INVALID_MODE
          /\ n_writes' = 0 /\ n_reads' = 0
          /\ NoTransportIO
          /\ handle' = handle
    /\ (handle.is_valid /\ handle.mode = TMB_MODE_SERVER
          /\ ApiCall("tmb_client_set_device_address")) =>
          /\ api'.ret = TMB_E_INVALID_MODE
          /\ UNCHANGED << n_writes, n_reads >> /\ NoTransportIO
          /\ handle' = handle
    /\ (handle.is_valid /\ handle.mode = TMB_MODE_SERVER /\ ApiCall("tmb_wrapper")) =>
          /\ api'.ret = mismatch(api'.args[1] \in ReadFunctions /\ api'.args[2] = NULL)
          /\ UNCHANGED << n_writes, n_reads >> /\ NoTransportIO
          /\ handle' = handle
    /\ (handle.is_valid /\ handle.mode = TMB_MODE_CLIENT
          /\ ApiCall("tmb_server_set_callback")) =>
          /\ api'.ret = mismatch(api'.args[1] > TMB_ADDRESS_ANY)
          /\ UNCHANGED << n_writes, n_reads >> /\ NoTransportIO
          /\ handle' = handle
    /\ handle'.mode # handle.mode => ApiCall("tmb_init")

AlwaysInvalidMode(args_invalid) == TMB_E_INVALID_MODE
InvalidArgumentsFirst(args_invalid) ==
    IF args_invalid THEN TMB_E_INVALID_ARGUMENTS ELSE TMB_E_INVALID_MODE

\* C23 as stated: a client call on a valid server handle and
\* tmb_server_set_callback on a valid client handle always return
\* TMB_E_INVALID_MODE.  Refuted: the read wrappers look at their values
\* pointer, and tmb_server_set_callback at its address, before the mode.
C23_AsStated == [][C23_StepWith(AlwaysInvalidMode)]_vars

\* C23: on a valid server handle every client call (tmb_client_send_request,
\* tmb_client_set_device_address, the read and write wrappers) makes no
\* transport call and leaves the handle, so the callback table, as it was, and
\* returns TMB_E_INVALID_MODE, except that a read wrapper given a NULL values
\* pointer returns TMB_E_INVALID_ARGUMENTS; on a valid client handle
\* tmb_server_set_callback leaves the handle, so device address and
\* transaction identifier, as it was and returns TMB_E_INVALID_MODE, except
\* that with an address above TMB_ADDRESS_ANY it returns
\* TMB_E_INVALID_ARGUMENTS; only tmb_init changes the mode of a handle.
C23_ModeMismatch == [][C23_StepWith(InvalidArgumentsFirst)]_vars

\* a server handle with callbacks registered refused a direct request with
\* TMB_E_INVALID_MODE and then a read wrapper with a NULL values pointer
C23_Witness ==
    /\ handle.is_valid /\ handle.mode = TMB_MODE_SERVER
    /\ \E i \in Slots : handle.callbacks[i] = [address |-> 1, callbacks |-> "A"]
    /\ exchanges > 0 /\ pc = "done" /\ result = TMB_E_INVALID_MODE /\ n_writes = 0
    /\ api.op = "tmb_wrapper"
    /\ api.args = << TMB_FUNCTION_READ_COILS, NULL >>
    /\ api.ret = TMB_E_INVALID_ARGUMENTS

(* ------------------------------------------------------------------ *)
(* C26, C28: the server loop                                            *)
(* ------------------------------------------------------------------ *)
\* the transport holds a ReadHoldingRegisters request (RTU framing) for a
\* unit whose callbacks are registered
RequestWaiting ==
    /\ Len(rx) >= 6
    /\ rx[2] = TMB_FUNCTION_READ_HOLDING_REGISTERS
    /\ \E i \in Slots : Occupied(i) /\ handle.callbacks[i].address = rx[1]

C26_Step ==
    (handle.is_valid /\ handle.mode = TMB_MODE_SERVER /\ RequestWaiting
       /\ ApiCall("tmb_server_run_iteration"))
    => /\ n_reads' > n_reads
       /\ consumed' = consumed + Len(rx)
       /\ Len(api'.invoked) = rx[5] * 256 + rx[6]
       /\ n_writes' > n_writes
       /\ wire_out' # << >>

\* C26: tmb_server_run_iteration on a valid server handle reads the request
\* ADU from the transport and, for a ReadHoldingRegisters request for a unit
\* with registered callbacks, invokes on_read_holding_register once per
\* requested register and writes a reply ADU.  Refuted: the function returns
\* TMB_E_NOT_IMPLEMENTED without a transport call or a callback.
C26_IterationServesRequest == [][C26_Step]_vars

\* an iteration returned TMB_E_NOT_IMPLEMENTED with the request for unit 1
\* still on the transport: nothing read, invoked or written
C26_Witness ==
    /\ handle.is_valid /\ handle.mode = TMB_MODE_SERVER /\ RequestWaiting
    /\ rx[1] = 1 /\ rx[5] * 256 + rx[6] = 3
    /\ api.op = "tmb_server_run_iteration" /\ api.ret = TMB_E_NOT_IMPLEMENTED
    /\ api.invoked = << >>
    /\ n_reads = 0 /\ n_writes = 0 /\ consumed = 0 /\ wire_out = << >>

\* C28: tmb_server_run_forever never returns TMB_SUCCESS, and once an
\* iteration has returned an error it is no longer in its loop but has
\* returned a failure code.  Refuted: the loop drops the iteration's return
\* value and goes on.
C28_RunForeverFails ==
    /\ (api.op = "tmb_server_run_forever" /\ pc # "forever") => api.ret # TMB_SUCCESS
    /\ (api.op = "tmb_server_run_iteration" /\ api.ret # TMB_SUCCESS) => pc # "forever"

\* the loop is still running after two iterations that returned
\* TMB_E_NOT_IMPLEMENTED
C28_Witness ==
    /\ handle.is_valid /\ handle.mode = TMB_MODE_SERVER
    /\ pc = "forever"
    /\ api.n = 3
    /\ api.op = "tmb_server_run_iteration" /\ api.ret = TMB_E_NOT_IMPLEMENTED

(* ------------------------------------------------------------------ *)
(* C27: ASCII encapsulation                                             *)
(* ------------------------------------------------------------------ *)
\* C27: a client handle can be initialised with ASCII encapsulation (so that
\* requests sent through it are framed as ':' + hex digits + LRC + CR LF):
\* tmb_init for a client with ASCII encapsulation and buffer, transport, read
\* and write given returns TMB_SUCCESS and leaves a valid ASCII handle.
\* Refuted: tmb_init returns TMB_E_NOT_IMPLEMENTED and the handle stays
\* invalid, so no request is ever framed in ASCII.
C27_AsciiClient ==
    (AfterInit /\ api.args[1] = TMB_MODE_CLIENT
       /\ InitEncapsulation = TMB_TRANSPORT_PROTOCOL_ASCII /\ InitPointersOk)
    => /\ api.ret = TMB_SUCCESS
       /\ handle.is_valid
       /\ handle.encapsulation = TMB_TRANSPORT_PROTOCOL_ASCII

\* tmb_init for an ASCII client with every pointer given returned
\* TMB_E_NOT_IMPLEMENTED and left the handle invalid
C27_Witness ==
    /\ AfterInit /\ api.args[1] = TMB_MODE_CLIENT
    /\ InitEncapsulation = TMB_TRANSPORT_PROTOCOL_ASCII /\ InitPointersOk
    /\ api.args[4] = TMB_ADU_RTU_MAX_SIZE
    /\ api.ret = TMB_E_NOT_IMPLEMENTED
    /\ ~handle.is_valid

(* ------------------------------------------------------------------ *)
(* C29: transport.read returning 0                                      *)
(* ------------------------------------------------------------------ *)
\* a transport.read call of tmb_receive that moved no byte; the transport of
\* SpecReadZero then returned 0
C29_Step ==
    (pc \in {"recv_head", "recv_body"} /\ n_reads' = n_reads + 1 /\ consumed' = consumed)
    => /\ pc' = pc
       /\ UNCHANGED << received_bytes, rx_want, result >>

\* C29: a transport.read call that returns 0 is no error: the client is still
\* receiving after it, with the same bytes missing, and the exchange has not
\* failed.  Refuted: tmb_receive returns TMB_E_TRANSPORT on a return of 0.
C29_ReadZeroTolerated == [][C29_Step]_vars

\* an RTU exchange failed with TMB_E_TRANSPORT after a first read of one byte
\* and a second read that returned 0
C29_Witness ==
    /\ pc = "done" /\ result = TMB_E_TRANSPORT
    /\ handle.encapsulation = TMB_TRANSPORT_PROTOCOL_RTU
    /\ n_writes = 1 /\ n_reads = 2 /\ consumed = 1
    /\ Len(reply) > consumed

(* ------------------------------------------------------------------ *)
(* C30: the response size oracle                                        *)
(* ------------------------------------------------------------------ *)
\* C30: tmb_get_response_size(f, b) returns 2 + b for the read functions 1..4
\* and every b in 0..255, and 5 for the write functions 5, 6, 15 and 16; that
\* is the length of the normal reply PDU: function code, byte count and b
\* data bytes for a read, function code and two 16-bit fields for a write.
C30_ResponseSize ==
    api.op = "tmb_get_response_size" =>
        LET f == api.args[1]
            b == api.args[2]
        IN  /\ f \in 1..4 =>
                 /\ api.ret = 2 + b
                 /\ api.ret = Len(<< f, b >> \o Payload(b))
            /\ f \in {5, 6, 15, 16} =>
                 /\ api.ret = 5
                 /\ \A pdu \in NormalPdus(Req(f, 1, 3)) : api.ret = Len(pdu)

\* the size of a ReadHoldingRegisters reply with byte count 255 was asked for
C30_Witness ==
    /\ api.op = "tmb_get_response_size"
    /\ api.args = << TMB_FUNCTION_READ_HOLDING_REGISTERS, 255 >>
    /\ api.ret = 257

(* ------------------------------------------------------------------ *)
(* C31: replies with an unsupported function code                        *)
(* ------------------------------------------------------------------ *)
\* the peer's reply has a first PDU byte that is neither a supported function
\* code nor has the high bit set, its head was received, the call has
\* returned and no transport call failed
UnsupportedReplyHandled ==
    /\ pc = "done" /\ reply # << >>
    /\ ReplyFunction \notin SupportedFunctions /\ ReplyFunction < 128
    /\ HeadReceived
    /\ link_up

\* C31: when the first PDU byte of the reply is neither a supported function
\* code nor an exception code, tmb_client_send_request returns
\* TMB_E_ILLEGAL_FUNCTION, on RTU and on TCP.  Refuted on RTU: the size
\* oracle's error value is taken for a PDU size of 1, one more byte is read
\* and the CRC comparison fails first.
C31_UnsupportedReplyFunction ==
    UnsupportedReplyHandled => result = TMB_E_ILLEGAL_FUNCTION

\* an RTU exchange answered with a ReadExceptionStatus reply with a right CRC
\* ended with TMB_E_INVALID_CRC after four of its five bytes were read
C31_Witness ==
    /\ UnsupportedReplyHandled
    /\ IsRtu /\ ReplyFunction = 7 /\ ReplyCrcOk
    /\ result = TMB_E_INVALID_CRC
    /\ consumed = 4 /\ Len(reply) = 5

(* ------------------------------------------------------------------ *)
(* C32: building the request ADU in a tight buffer                       *)
(* ------------------------------------------------------------------ *)
\* the length of the request ADU: prefix, function code, two 16-bit fields,
\* for the multiple writes the byte count and that many payload bytes, trailer
RequestAduLength(encapsulation, req) ==
    Prefix(encapsulation) + 5
      + (IF req.function_code \in {TMB_FUNCTION_WRITE_MULTIPLE_COILS,
                                   TMB_FUNCTION_WRITE_MULTIPLE_REGISTERS}
         THEN 1 + req.byte_count ELSE 0)
      + Trailer(encapsulation)

\* a call was made with a request that the validator accepts
SentValidRequest ==
    /\ exchanges > 0 /\ pc # "idle"
    /\ handle.is_valid /\ handle.mode = TMB_MODE_CLIENT
    /\ tmb_request_validate(request) = TMB_SUCCESS

\* C32: building a request ADU stores no byte at an index >= buffer_size,
\* whatever the request; when buffer_size is smaller than the ADU length the
\* call returns TMB_E_NO_MEMORY and makes no transport.write call, and when
\* buffer_size equals the ADU length the ADU is built and written.  Refuted
\* for WriteMultipleCoils: tmb_adu_add_bytes copies the payload when it does
\* not fit and returns 1 when it does.
C32_BuildWithinBuffer ==
    /\ n_reads = 0 => ~oob
    /\ SentValidRequest =>
          LET len == RequestAduLength(handle.encapsulation, request)
          IN  /\ handle.buffer_size < len =>
                    (pc = "done" /\ result = TMB_E_NO_MEMORY /\ n_writes = 0)
              /\ handle.buffer_size = len => (pc = "send" \/ n_writes > 0)

\* a WriteMultipleCoils request of 11 bytes was built in an RTU buffer of 7:
\* both payload bytes were stored beyond the buffer
C32_Witness ==
    /\ SentValidRequest
    /\ request.function_code = TMB_FUNCTION_WRITE_MULTIPLE_COILS
    /\ IsRtu /\ handle.buffer_size = 7
    /\ RequestAduLength(handle.encapsulation, request) = 11
    /\ oob /\ n_reads = 0 /\ n_writes = 0
    /\ pc = "done" /\ result = TMB_E_NO_MEMORY
    /\ Len(buffer) > 7

(* ------------------------------------------------------------------ *)
(* C33: the handle across a call of tmb_client_send_request              *)
(* ------------------------------------------------------------------ *)
\* this step belongs to a call of tmb_client_send_request: its entry, or one
\* of its transport calls with what follows it
CallStep == RequestCall \/ InCall

C33_Step ==
    CallStep =>
        /\ handle' = [handle EXCEPT !.last_transaction_identifier =
                                       handle'.last_transaction_identifier]
        /\ handle'.last_transaction_identifier
             \in {handle.last_transaction_identifier,
                  uint16_increment(handle.last_transaction_identifier)}

\* C33: tmb_client_send_request, whether it succeeds or fails in validation,
\* build, send, receive, checksum or parse, changes no field of the handle
\* other than the transaction identifier, which it leaves or increments:
\* validity, mode, encapsulation, buffer size and device address stay.
C33_HandleFrame == [][C33_Step]_vars

\* a second request was issued on the handle after its device address was
\* set to 17 and ended with TMB_E_INVALID_CRC; the handle is valid, has
\* address 17 and has counted both requests
C33_Witness ==
    /\ pc = "done" /\ exchanges = 2 /\ result = TMB_E_INVALID_CRC
    /\ handle.is_valid /\ handle.mode = TMB_MODE_CLIENT /\ IsRtu
    /\ handle.device_address = 17
    /\ reply # << >> /\ reply[1] = 17
    /\ handle.last_transaction_identifier = 2

(* ------------------------------------------------------------------ *)
(* C34: the device address of the requests                               *)
(* ------------------------------------------------------------------ *)
\* the address of the last tmb_client_set_device_address that succeeded, 0
\* when there was none since tmb_init
AddressSet ==
    IF api.op = "tmb_client_set_device_address" /\ api.ret = TMB_SUCCESS
    THEN api.args[1]
    ELSE 0

\* index (from 0) of the address byte of a request ADU
AddressIndex == Prefix(handle.encapsulation) - 1

\* C34: the handle stores the address of the most recent successful
\* tmb_client_set_device_address, 0 if there was none, also while and after
\* requests are sent, and the request ADU a call builds and the bytes it
\* writes to the transport carry it as the address byte: byte 0 on RTU, byte 6
\* on TCP.
C34_DeviceAddressStamped ==
    /\ handle.device_address = AddressSet
    /\ pc = "send" => BufAt(buffer, AddressIndex) = AddressSet
    /\ (InCall /\ Len(wire_out) > AddressIndex) => wire_out[AddressIndex + 1] = AddressSet

\* after the address was set twice, last to 18, a TCP request with unit
\* identifier 18 was written
C34_Witness ==
    /\ api.n = 2 /\ AddressSet = 18
    /\ IsTcp /\ pc = "recv_head"
    /\ Len(wire_out) = 12 /\ wire_out[7] = 18

(* ------------------------------------------------------------------ *)
(* C35: the wrappers of the multiple writes                              *)
(* ------------------------------------------------------------------ *)
\* the wrapper of function code fc was called with a quantity in lo..hi
WroteMultiple(fc, lo, hi) ==
    /\ exchanges > 0 /\ pc = "done"
    /\ request.function_code = fc
    /\ request.quantity \in lo..hi

\* C35: for every quantity in range, tmb_write_multiple_coils and
\* tmb_write_multiple_registers build a request with byte_count equal to the
\* ceiling of quantity / 8 and to 2 * quantity, which tmb_request_validate
\* accepts and which is not refused before the transport.  Refuted: both
\* store the quantity as byte_count.
C35_WriteMultipleByteCount ==
    /\ WroteMultiple(TMB_FUNCTION_WRITE_MULTIPLE_COILS, 1, 1968) =>
          /\ request.byte_count = (request.quantity + 7) \div 8
          /\ tmb_request_validate(request) = TMB_SUCCESS
          /\ n_writes > 0
    /\ WroteMultiple(TMB_FUNCTION_WRITE_MULTIPLE_REGISTERS, 1, 123) =>
          /\ request.byte_count = 2 * request.quantity
          /\ tmb_request_validate(request) = TMB_SUCCESS
          /\ n_writes > 0

\* tmb_write_multiple_registers for 2 registers returned
\* TMB_E_ILLEGAL_DATA_VALUE: its request has byte_count 2, and nothing was
\* written
C35_Witness ==
    /\ WroteMultiple(TMB_FUNCTION_WRITE_MULTIPLE_REGISTERS, 2, 2)
    /\ request.byte_count = 2
    /\ result = TMB_E_ILLEGAL_DATA_VALUE
    /\ n_writes = 0 /\ wire_out = << >>

(* ------------------------------------------------------------------ *)
(* C36: the WriteMultipleCoils request on the wire                       *)
(* ------------------------------------------------------------------ *)
\* the PDU of a WriteMultipleCoils request: function code, start address,
\* quantity, byte count and byte_count bytes of its values
WriteMultipleCoilsPdu(req) ==
    << TMB_FUNCTION_WRITE_MULTIPLE_COILS,
       HiByte(req.start_address), LoByte(req.start_address),
       HiByte(req.quantity), LoByte(req.quantity), req.byte_count >>
      \o SubSeq(req.values, 1, req.byte_count)

\* a WriteMultipleCoils request that the validator accepts was passed to
\* tmb_client_send_request on a handle whose buffer holds the whole ADU
SentWriteMultipleCoils ==
    /\ SentValidRequest
    /\ request.function_code = TMB_FUNCTION_WRITE_MULTIPLE_COILS
    /\ handle.buffer_size >= RequestAduLength(handle.encapsulation, request)

\* C36: a WriteMultipleCoils request that tmb_request_validate accepts, sent
\* with a buffer large enough for the ADU, is written to the transport, with
\* the PDU 0x0F, start address, quantity, byte_count and byte_count payload
\* bytes copied from the request's values.  Refuted: tmb_adu_add_bytes ends
\* the build with the error 1 and nothing is written.
C36_WriteMultipleCoilsOnWire ==
    SentWriteMultipleCoils =>
        /\ pc = "send" \/ n_writes > 0
        /\ pc \in {"recv_head", "recv_body"} =>
              SubSeq(wire_out, ReplyOffset + 1,
                     Len(wire_out) - Trailer(handle.encapsulation))
                = WriteMultipleCoilsPdu(request)

\* WriteMultipleCoils(19, 8 coils, 2 bytes CD 01) on an RTU handle with a
\* 256-byte buffer returned 1 without a transport.write call
C36_Witness ==
    /\ SentWriteMultipleCoils
    /\ IsRtu /\ handle.buffer_size = TMB_ADU_RTU_MAX_SIZE
    /\ request.values = << 205, 1 >> /\ request.byte_count = 2
    /\ pc = "done" /\ result = 1
    /\ n_writes = 0 /\ wire_out = << >>

(* ------------------------------------------------------------------ *)
(* C37: the function code of the response                                *)
(* ------------------------------------------------------------------ *)
\* C37: whenever tmb_client_send_request has returned TMB_SUCCESS, the
\* function code in the response is the function code of the request of that
\* exchange.  Refuted: the reply's function code is never compared with the
\* request's.
C37_ResponseFunctionMatches ==
    (pc = "done" /\ exchanges > 0 /\ result = TMB_SUCCESS)
    => response.function_code = request.function_code

\* a ReadHoldingRegisters request answered with a WriteSingleRegister reply
\* returned TMB_SUCCESS with function code 6 in the response
C37_Witness ==
    /\ pc = "done" /\ result = TMB_SUCCESS
    /\ request.function_code = TMB_FUNCTION_READ_HOLDING_REGISTERS
    /\ reply # << >> /\ ReplyFunction = TMB_FUNCTION_WRITE_SINGLE_REGISTER
    /\ consumed = Len(reply)
    /\ response.function_code = TMB_FUNCTION_WRITE_SINGLE_REGISTER

(* ------------------------------------------------------------------ *)
(* C38: what the read wrappers copy into the caller's array              *)
(* ------------------------------------------------------------------ *)
\* C38: a register read wrapper that returned TMB_SUCCESS has stored at most
\* 2 * quantity bytes (quantity registers) in the caller's values array,
\* whatever byte count the reply declared.  Refuted: the memcpy length is the
\* reply's byte count.
C38_CopyWithinQuantity ==
    (pc = "done" /\ exchanges > 0 /\ wrapper_return = TMB_SUCCESS
       /\ request.function_code \in {TMB_FUNCTION_READ_HOLDING_REGISTERS,
                                     TMB_FUNCTION_READ_INPUT_REGISTERS})
    => Len(values) <= 2 * request.quantity

\* a read of 3 holding registers answered with a declared byte count of 250
\* returned TMB_SUCCESS after copying 250 bytes to the caller
C38_Witness ==
    /\ pc = "done" /\ wrapper_return = TMB_SUCCESS
    /\ request.function_code = TMB_FUNCTION_READ_HOLDING_REGISTERS
    /\ request.quantity = 3
    /\ response.byte_count = 250
    /\ Len(values) = 250

(* ------------------------------------------------------------------ *)
(* C39: the in-place decoding of a register reply                        *)
(* ------------------------------------------------------------------ *)
\* C39: once a ReadHoldingRegisters or ReadInputRegisters reply has been
\* received, whatever byte count it declares, the conversion loop of
\* tmb_response_parse has run to its end inside the byte-count payload: the
\* call is never left with the loop running off the buffer.  Refuted for a
\* declared byte count of 0.
C39_RegisterDecodingBounded ==
    (/\ reply # << >>
     /\ ReplyFunction \in {TMB_FUNCTION_READ_HOLDING_REGISTERS,
                           TMB_FUNCTION_READ_INPUT_REGISTERS}
     /\ consumed = Len(reply))
    => pc # "crashed"

\* a ReadHoldingRegisters reply declaring byte count 0 was received whole and
\* the conversion loop ran off the buffer
C39_Witness ==
    /\ pc = "crashed"
    /\ reply # << >>
    /\ ReplyFunction = TMB_FUNCTION_READ_HOLDING_REGISTERS
    /\ ReplySecond = 0
    /\ consumed = Len(reply)
====
